---- MODULE Spec2Model ----
(***************************************************************************)
(* A model of jsongroup: the group filter (shouldIncludeField), the        *)
(* traversal engine (valueToMap / structToMap / mapToMap / sliceToSlice    *)
(* with its serializeContext), the public entry points, and the field      *)
(* metadata cache (fieldCache over container/list).                        *)
(*                                                                         *)
(* The specifications share the module's variables; each one leaves the   *)
(* variables of the other parts at a fixed idle value:                     *)
(*   SpecFilter     the group filter applied to one resolved field         *)
(*   SpecMarshal    one call of a public entry point on a value graph      *)
(*   SpecFields     the options built by the builders, one call on a struct*)
(*   SpecEmbedded   one call on a struct with embedded structs             *)
(*   SpecWarm       calls one after the other over the global cache        *)
(*   SpecResolve    the same on a type whose inspection panics             *)
(*   SpecCache      goroutines using the global field cache concurrently   *)
(*   SpecConcurrent marshal calls running at once on one value             *)
(***************************************************************************)
EXTENDS Integers, Sequences, FiniteSets, TLC

VARIABLES
    pc,         \* position of the modelled call: "start" or "done"
    field,      \* the fieldInfo handed to shouldIncludeField
    groups,     \* the requested groups (the variadic groups argument)
    opts,       \* the Options of the call
    included,   \* what shouldIncludeField returned
    heap,       \* the value graph: address -> object (struct fields, slice or map contents)
    v,          \* the value handed to the entry point
    ret,        \* what the entry point handed back: result, error or panic
    globalCache,\* the fieldCache: cache (index), evictList, maxSize, stats
    gor,        \* the goroutines calling getFieldsInfo: where each one stands
    pending,    \* the promotion goroutines started and not yet run, per element
    accessed,   \* history: the cached types, the most recently accessed first
    fault,      \* "none", or how the process ended: "hung" or "crashed"
    lookups,    \* history: the lookups completed since the last Clear, by how they were answered
    calls,      \* the marshal calls that run at once: each one's frame and context
    pointerMaps,\* the pointers maps that newContext has made, by identity
    cached,     \* the fieldCache between marshal calls: type -> the tag key of its entry
    outputs,    \* history: the options, the cache before and the result of each call made
    faulty      \* the struct types whose inspection by reflection panics

filterVars == <<field, included>>
marshalVars == <<heap, v, ret>>
cacheVars == <<globalCache, gor, pending, accessed, fault, lookups>>

callVars == <<calls, pointerMaps>>
warmVars == <<cached, outputs, faulty>>

vars == <<pc, field, groups, opts, included, heap, v, ret, globalCache, gor, pending,
          accessed, fault, lookups, calls, pointerMaps, cached, outputs, faulty>>

(***************************************************************************)
(* Bounds of the model.                                                    *)
(***************************************************************************)
\* longest group list, of a field's tag and of a request
MaxGroups == 2
\* number of Node structs in the value graph
MaxNodes == 3
\* largest configured maximum depth
MaxDepthOpt == 6
\* number of struct types looked up in the cache
MaxTypes == 3
\* number of list elements the cache allocates in a run
MaxElems == 3
\* number of goroutines calling getFieldsInfo
MaxCallers == 2
\* largest cache capacity
MaxCap == 2
\* promotion goroutines outstanding at a time
MaxPending == 2
\* largest value of the hit counter
MaxHits == 2
\* the largest value of an int field of the omit structs
MaxInt == 1
\* marshal calls made one after the other on the same value
MaxCalls == 3
\* frames the goroutine stack holds before the runtime aborts the process;
\* a traversal with cycle checking on never nests deeper than 2 * MaxNodes + 4
MaxStack == 2 * MaxNodes + 6

(***************************************************************************)
(* Options.                                                                *)
(***************************************************************************)
GroupModeOr == 0
GroupModeAnd == 1

GroupNames == {"public", "admin", "internal"}

RECURSIVE SeqsUpTo(_, _)
\* all sequences over S of length at most n
SeqsUpTo(S, n) ==
    IF n = 0 THEN {<<>>}
    ELSE LET shorter == SeqsUpTo(S, n - 1)
         IN  shorter \cup {Append(s, x) : s \in shorter, x \in S}

Range(s) == {s[i] : i \in 1..Len(s)}

(***************************************************************************)
(* The group filter.                                                       *)
(***************************************************************************)
\* slices.Contains
Contains(s, x) == \E i \in 1..Len(s) : s[i] = x

\* a mutant of shouldIncludeField: ALL mode stops at the first group found
shouldIncludeFieldFirstMatch(f, mode, gs) ==
    IF Len(gs) = 0 THEN TRUE
    ELSE IF Len(f.Groups) = 0 THEN FALSE
    ELSE \E i \in 1..Len(gs) : Contains(f.Groups, gs[i])

\* a mutant of shouldIncludeField: the field's tags are looked at before the
\* request, so a field without groups is excluded from an empty request too
shouldIncludeFieldTagsFirst(f, mode, gs) ==
    IF Len(f.Groups) = 0 THEN FALSE
    ELSE IF Len(gs) = 0 THEN TRUE
    ELSE CASE mode = GroupModeOr ->
                \E i \in 1..Len(gs) : Contains(f.Groups, gs[i])
           [] mode = GroupModeAnd ->
                \A i \in 1..Len(gs) : Contains(f.Groups, gs[i])
           [] OTHER -> FALSE

\* a mutant of shouldIncludeField: a field without groups passes in ALL mode,
\* as the loop over the requested groups would have it
shouldIncludeFieldUntaggedPasses(f, mode, gs) ==
    IF Len(gs) = 0 THEN TRUE
    ELSE IF Len(f.Groups) = 0 THEN mode = GroupModeAnd
    ELSE CASE mode = GroupModeOr ->
                \E i \in 1..Len(gs) : Contains(f.Groups, gs[i])
           [] mode = GroupModeAnd ->
                \A i \in 1..Len(gs) : Contains(f.Groups, gs[i])
           [] OTHER -> FALSE

\* a mutant of shouldIncludeField: only the last requested group is tested
shouldIncludeFieldLastGroup(f, mode, gs) ==
    IF Len(gs) = 0 THEN TRUE
    ELSE IF Len(f.Groups) = 0 THEN FALSE
    ELSE Contains(f.Groups, gs[Len(gs)])

\* a mutant of shouldIncludeField: the two modes' loops swapped
shouldIncludeFieldSwapped(f, mode, gs) ==
    IF Len(gs) = 0 THEN TRUE
    ELSE IF Len(f.Groups) = 0 THEN FALSE
    ELSE CASE mode = GroupModeOr ->
                \A i \in 1..Len(gs) : Contains(f.Groups, gs[i])
           [] mode = GroupModeAnd ->
                \E i \in 1..Len(gs) : Contains(f.Groups, gs[i])
           [] OTHER -> FALSE

\* shouldIncludeField(field, mode, groups...)
shouldIncludeField(f, mode, gs) ==
    IF Len(gs) = 0 THEN TRUE
    ELSE IF Len(f.Groups) = 0 THEN FALSE
    ELSE CASE mode = GroupModeOr ->
                \* return true at the first requested group the field has
                \E i \in 1..Len(gs) : Contains(f.Groups, gs[i])
           [] mode = GroupModeAnd ->
                \* return false at the first requested group the field lacks
                \A i \in 1..Len(gs) : Contains(f.Groups, gs[i])
           [] OTHER -> FALSE

(***************************************************************************)
(* Values (reflect.Value).  A value is a record: k its kind, a the address  *)
(* it refers to (pointer target, slice backing array, map header, or where  *)
(* a struct lives; 0 is nil), n an integer payload (an int's value, an      *)
(* array's length), s a string payload, boxed whether the value sits in an  *)
(* interface (any).  heap[a] holds what lives at address a: t the struct    *)
(* type (or "slice", "map"), e the field values / elements / map values,    *)
(* keys the map's keys.                                                     *)
(***************************************************************************)
IntV(n) == [k |-> "int", a |-> 0, n |-> n, s |-> "", boxed |-> FALSE]
StrV(s) == [k |-> "string", a |-> 0, n |-> 0, s |-> s, boxed |-> FALSE]
PtrV(a) == [k |-> "ptr", a |-> a, n |-> 0, s |-> "", boxed |-> FALSE]
StructV(a) == [k |-> "struct", a |-> a, n |-> 0, s |-> "", boxed |-> FALSE]
SliceV(a) == [k |-> "slice", a |-> a, n |-> 0, s |-> "", boxed |-> FALSE]
MapV(a) == [k |-> "map", a |-> a, n |-> 0, s |-> "", boxed |-> FALSE]
ArrayV(n) == [k |-> "array", a |-> 0, n |-> n, s |-> "", boxed |-> FALSE]
\* the untyped nil: an interface holding nothing
NilV == [k |-> "invalid", a |-> 0, n |-> 0, s |-> "", boxed |-> TRUE]
\* a value stored in an interface (a map[string]any value, the any argument)
Boxed(val) == [val EXCEPT !.boxed = TRUE]

\* reflect.Value.Kind
Kind(val) == IF val.boxed THEN "iface" ELSE val.k
\* reflect.Value.Elem of a non-nil interface or pointer
Elem(val) ==
    IF val.boxed THEN [val EXCEPT !.boxed = FALSE]
    ELSE StructV(val.a)
\* reflect.Value.IsNil; it panics on a kind that cannot be nil
CanBeNil(val) == Kind(val) \in {"iface", "ptr", "slice", "map"}
IsNil(val) ==
    IF val.boxed THEN val.k = "invalid" ELSE val.a = 0
\* reflect.Value.Len of a slice, map, array or string
LenV(val) ==
    CASE val.k \in {"slice", "map"} -> IF val.a = 0 THEN 0 ELSE Len(heap[val.a].e)
      [] val.k = "array" -> val.n
      [] val.k = "string" -> IF val.s = "" THEN 0 ELSE 1
      [] OTHER -> 0

(***************************************************************************)
(* Errors.  type is the ErrType of an *Error, "nil" for no error, or the   *)
(* name of an error that is not an *Error: "skip_field" is the drop signal *)
(* errors.New("skip_field"), "reflect.ValueError" what reflect panics with.*)
(* path is the dotted path as the sequence of its segments; cause names    *)
(* the wrapped error.                                                      *)
(***************************************************************************)
ErrTypes == {"Unknown", "MaxDepthExceeded", "CircularReference",
             "UnsupportedType", "Reflection", "CacheOverflow"}

NoErr == [type |-> "nil", path |-> <<>>, cause |-> ""]
SkipField == [type |-> "skip_field", path |-> <<>>, cause |-> ""]
ValueError == [type |-> "reflect.ValueError", path |-> <<>>, cause |-> ""]
MaxDepthError(path) == [type |-> "MaxDepthExceeded", path |-> path, cause |-> ""]
CircularReferenceError(path) == [type |-> "CircularReference", path |-> path, cause |-> ""]
ReflectionError(path, err) == [type |-> "Reflection", path |-> path, cause |-> err.type]

\* WrapJSONError(err, path): an *Error passes, any other error becomes Unknown
WrapJSONError(err, path) ==
    IF err = NoErr THEN NoErr
    ELSE IF err.type \in ErrTypes THEN err
    ELSE [type |-> "Unknown", path |-> path, cause |-> err.type]

(***************************************************************************)
(* Struct types (reflect.Type): the declared fields with their tags.  A    *)
(* tag is the sequence of its comma separated parts; <<>> is no tag.       *)
(***************************************************************************)
FieldDecl(name, kind, jsonTag, groupsTag) ==
    [Name |-> name, Kind |-> kind, Type |-> "", Exported |-> TRUE,
     Anonymous |-> FALSE, json |-> jsonTag, tagKey |-> "groups", tag |-> groupsTag]

\* the list-and-graph node of the cycle tests, with a slice of pointers added
NodeType ==
    << FieldDecl("ID", "int", <<"id">>, <<"base", "all">>),
       FieldDecl("Next", "ptr", <<"next", "omitempty">>, <<"links", "all">>),
       FieldDecl("Items", "slice", <<"items", "omitempty">>, <<"links", "all">>),
       FieldDecl("Data", "map", <<"data", "omitempty">>, <<"data", "all">>) >>

\* Address of the marshal tests: Street for admin and public, ZIP for admin
AddressType ==
    << FieldDecl("Street", "string", <<"street">>, <<"admin", "public">>),
       FieldDecl("ZIP", "string", <<"zip">>, <<"admin">>) >>

\* an embedded (anonymous) field of struct type typ with its tags
EmbeddedDecl(typ, jsonTag, groupsTag) ==
    [FieldDecl(typ, "struct", jsonTag, groupsTag) EXCEPT !.Anonymous = TRUE, !.Type = typ]

\* the struct of the omit tests, one type per combination of json options
\* (omit is <<>>, <<"omitempty">>, <<"omitzero">> or both): an int, a slice
\* of *Address, a map of Address, a *Address, an Address by value, and an
\* Address embedded under a json name as ComplexUser embeds Profile
OmitTestType(omit) ==
    << FieldDecl("Int", "int", <<"int">> \o omit, <<"public", "internal">>),
       FieldDecl("Slice", "slice", <<"slice">> \o omit, <<"public", "internal">>),
       FieldDecl("Map", "map", <<"map">> \o omit, <<"public", "internal">>),
       FieldDecl("Ptr", "ptr", <<"ptr">> \o omit, <<"public", "internal">>),
       FieldDecl("Home", "struct", <<"home">>, <<"public", "admin">>),
       EmbeddedDecl("Address", <<"address">>, <<"public", "admin">>) >>

\* User, BaseInfo and Profile of the marshal tests, with the scalar fields
\* that differ in their groups: Profile embeds BaseInfo without a tag
UserType ==
    << FieldDecl("ID", "int", <<"id">>, <<"public", "admin">>),
       FieldDecl("Email", "string", <<"email">>, <<"admin", "internal">>),
       FieldDecl("Password", "string", <<"password">>, <<"internal">>) >>
BaseInfoType ==
    << FieldDecl("CreatedAt", "string", <<"created_at">>, <<"admin">>) >>
ProfileType ==
    << EmbeddedDecl("BaseInfo", <<>>, <<>>),
       FieldDecl("Age", "int", <<"age">>, <<"public", "admin">>),
       FieldDecl("Bio", "string", <<"bio">>, <<"public">>) >>

\* ComplexUser: User embedded without a tag, Profile embedded under a json
\* name and the groups memberGroups (public,admin in the marshal tests)
ComplexUserType(memberGroups) ==
    << EmbeddedDecl("User", <<>>, <<>>),
       EmbeddedDecl("Profile", <<"profile">>, memberGroups) >>

StructTypes ==
    [Node |-> NodeType,
     Address |-> AddressType,
     OmitPlain |-> OmitTestType(<<>>),
     OmitEmpty |-> OmitTestType(<<"omitempty">>),
     OmitZero |-> OmitTestType(<<"omitzero">>),
     OmitBoth |-> OmitTestType(<<"omitempty", "omitzero">>),
     User |-> UserType,
     BaseInfo |-> BaseInfoType,
     Profile |-> ProfileType,
     ComplexUser |-> ComplexUserType(<<"public", "admin">>),
     ComplexUserInternal |-> ComplexUserType(<<"internal">>)]

\* reflect.StructTag.Get
TagGet(decl, key) == IF decl.tagKey = key THEN decl.tag ELSE <<>>

\* parseJSONTag(fieldName, jsonTag): name, omitempty, omitzero
parseJSONTag(fieldName, jsonTag) ==
    IF jsonTag = <<>> THEN [name |-> fieldName, omitEmpty |-> FALSE, omitZero |-> FALSE]
    ELSE [name |-> IF jsonTag[1] = "" THEN fieldName ELSE jsonTag[1],
          omitEmpty |-> \E i \in 2..Len(jsonTag) : jsonTag[i] = "omitempty",
          omitZero |-> \E i \in 2..Len(jsonTag) : jsonTag[i] = "omitzero"]

\* parseGroupsTag(groupsTag): the parts that are not empty
parseGroupsTag(groupsTag) ==
    SelectSeq(groupsTag, LAMBDA g : g # "")

RECURSIVE parseFieldsFromNested(_, _, _)
\* parseFields resolving an embedded struct as one field under its json name
parseFieldsFromNested(t, tagKey, i) ==
    IF i > Len(StructTypes[t]) THEN <<>>
    ELSE
      LET decl == StructTypes[t][i]
          tagged == parseJSONTag(decl.Name, decl.json)
          rest == parseFieldsFromNested(t, tagKey, i + 1)
      IN  IF ~decl.Exported \/ tagged.name = "-" THEN rest
          ELSE << [Index |-> <<i>>,
                   Name |-> decl.Name,
                   JSONName |-> tagged.name,
                   Groups |-> parseGroupsTag(TagGet(decl, tagKey)),
                   OmitEmpty |-> tagged.omitEmpty,
                   OmitZero |-> tagged.omitZero,
                   Anonymous |-> FALSE] >> \o rest

RECURSIVE parseFieldsFromMemberGroups(_, _, _)
\* parseFields giving the fields hoisted from an embedded struct the groups
\* of the embedding member
parseFieldsFromMemberGroups(t, tagKey, i) ==
    IF i > Len(StructTypes[t]) THEN <<>>
    ELSE
      LET decl == StructTypes[t][i]
          tagged == parseJSONTag(decl.Name, decl.json)
          rest == parseFieldsFromMemberGroups(t, tagKey, i + 1)
      IN  IF ~decl.Exported \/ tagged.name = "-" THEN rest
          ELSE IF decl.Anonymous /\ decl.Kind = "struct" THEN
              LET nested == parseFieldsFromMemberGroups(decl.Type, tagKey, 1)
              IN  [j \in 1..Len(nested) |->
                      [nested[j] EXCEPT !.Index = <<i>> \o @,
                                        !.Name = decl.Name \o "." \o @,
                                        !.Groups = parseGroupsTag(TagGet(decl, tagKey))]] \o rest
          ELSE << [Index |-> <<i>>,
                   Name |-> decl.Name,
                   JSONName |-> tagged.name,
                   Groups |-> parseGroupsTag(TagGet(decl, tagKey)),
                   OmitEmpty |-> tagged.omitEmpty,
                   OmitZero |-> tagged.omitZero,
                   Anonymous |-> decl.Anonymous] >> \o rest

RECURSIVE parseFieldsFrom(_, _, _), parseFields(_, _)
\* parseFields(t, tagKey): the loop over t's fields from field i on
parseFieldsFrom(t, tagKey, i) ==
    IF i > Len(StructTypes[t]) THEN <<>>
    ELSE
      LET decl == StructTypes[t][i]
          tagged == parseJSONTag(decl.Name, decl.json)
          rest == parseFieldsFrom(t, tagKey, i + 1)
      IN  IF ~decl.Exported \/ tagged.name = "-" THEN rest
          ELSE IF decl.Anonymous /\ decl.Kind = "struct" THEN
              LET nested == parseFields(decl.Type, tagKey)
              IN  [j \in 1..Len(nested) |->
                      [nested[j] EXCEPT !.Index = <<i>> \o @,
                                        !.Name = decl.Name \o "." \o @]] \o rest
          ELSE << [Index |-> <<i>>,
                   Name |-> decl.Name,
                   JSONName |-> tagged.name,
                   Groups |-> parseGroupsTag(TagGet(decl, tagKey)),
                   OmitEmpty |-> tagged.omitEmpty,
                   OmitZero |-> tagged.omitZero,
                   Anonymous |-> decl.Anonymous] >> \o rest

\* what parseFields(t, tagKey) returns, fields and err.  Its results are
\* unnamed and fields and err are locals: when the loop panics, the deferred
\* function recovers and assigns the Reflection error and nil to the locals,
\* and the function returns the zero values of its results, nil and nil.
\* The loop that completes returns fields and the err that nothing assigned.
parseFieldsReturn(t, tagKey) ==
    IF t \in faulty THEN [fields |-> <<>>, err |-> NoErr]
    ELSE [fields |-> parseFieldsFrom(t, tagKey, 1), err |-> NoErr]

\* parseFields(t, tagKey): the field list it returns
parseFields(t, tagKey) == parseFieldsReturn(t, tagKey).fields

\* fieldCache.getFieldsInfo as a traversal sees it: the index is keyed by the
\* type alone, so a type that has an entry gets the list that was resolved
\* when the entry was stored, whatever tagKey is; a type without one is
\* parsed with tagKey, and a later lookup of the call returns the same list
getFieldsInfo(t, tagKey) ==
    parseFields(t, IF t \in DOMAIN cached THEN cached[t] ELSE tagKey)

\* the error getFieldsInfo returns with the list: nil with an entry's list,
\* and parseFields' error, when it is not nil, in place of storing an entry
getFieldsInfoErr(t, tagKey) ==
    IF t \in DOMAIN cached THEN NoErr ELSE parseFieldsReturn(t, tagKey).err

(***************************************************************************)
(* The intermediate representation built by the traversal.                 *)
(***************************************************************************)
Null == [k |-> "null"]
IRInt(n) == [k |-> "int", n |-> n]
IRStr(s) == [k |-> "string", s |-> s]
IRSeq(e) == [k |-> "seq", e |-> e]
\* m is a function from the keys to their values
IRMap(m) == [k |-> "map", m |-> m]
\* v.Interface(): the value handed on as it is
IRRaw(val) == [k |-> "raw", v |-> val]

EmptyMap == <<>>
\* result[key] = x
MapSet(m, key, x) == (key :> x) @@ m

(***************************************************************************)
(* serializeContext.  The context of one valueToMap call is its path and   *)
(* its depth (copied into each child context by withPath); the pointers    *)
(* map is the one object all contexts of a call share, so it is threaded    *)
(* through the calls and handed back by each.                              *)
(***************************************************************************)
\* what a traversal step hands back: value, error and the pointers map, or a
\* panic (err is then the value panicked with), or the runtime's fatal abort
Ret(val, err, ptrs) ==
    [val |-> val, err |-> err, ptrs |-> ptrs, panic |-> FALSE, fatal |-> FALSE]
Panic(err, ptrs) ==
    [val |-> Null, err |-> err, ptrs |-> ptrs, panic |-> TRUE, fatal |-> FALSE]
Fatal(ptrs) ==
    [val |-> Null, err |-> NoErr, ptrs |-> ptrs, panic |-> FALSE, fatal |-> TRUE]
Abnormal(r) == r.panic \/ r.fatal

\* serializeContext.withPath: the new path
withPath(path, segment) ==
    IF path = <<>> THEN (IF segment = "" THEN <<>> ELSE <<segment>>)
    ELSE Append(path, segment)

\* a mutant of enterLevelFails: the limit applies also when MaxDepth is 0
enterLevelFailsAlways(depth) == depth > opts.MaxDepth

\* a mutant of enterLevelFails: off by one, depth = MaxDepth already fails
enterLevelFailsEarly(depth) == opts.MaxDepth > 0 /\ depth >= opts.MaxDepth

\* a mutant of enterLevelFails: the limit is never applied
enterLevelFailsNever(depth) == FALSE

\* serializeContext.enterLevel: whether the depth, already incremented, is over the limit
enterLevelFails(depth) == opts.MaxDepth > 0 /\ depth > opts.MaxDepth

\* reflect.Value.Pointer
Pointer(val) == val.a

\* a mutant of checkPointer: the address is never looked up
checkPointerBlind(path, ptrs, val) == [err |-> NoErr, ptrs |-> ptrs]

\* serializeContext.checkPointer: the error and the pointers map afterwards
checkPointer(path, ptrs, val) ==
    IF opts.DisableCircularCheck THEN [err |-> NoErr, ptrs |-> ptrs]
    ELSE IF Kind(val) \in {"map", "slice"} /\ LenV(val) = 0 THEN [err |-> NoErr, ptrs |-> ptrs]
    ELSE IF Kind(val) \in {"ptr", "map", "slice"} /\ ~IsNil(val) THEN
        IF Pointer(val) \in DOMAIN ptrs
        THEN [err |-> CircularReferenceError(path), ptrs |-> ptrs]
        ELSE [err |-> NoErr, ptrs |-> (Pointer(val) :> path) @@ ptrs]
    ELSE [err |-> NoErr, ptrs |-> ptrs]

\* isEmptyValue
isEmptyValue(val) ==
    CASE Kind(val) \in {"array", "map", "slice", "string"} -> LenV(val) = 0
      [] Kind(val) = "int" -> val.n = 0
      [] Kind(val) \in {"iface", "ptr"} -> IsNil(val)
      [] OTHER -> FALSE

\* isZeroValue: a collection is never zero, even when it is empty
isZeroValue(val) ==
    CASE Kind(val) = "int" -> val.n = 0
      [] Kind(val) = "string" -> val.s = ""
      [] Kind(val) \in {"iface", "ptr"} -> IsNil(val)
      [] OTHER -> FALSE

RECURSIVE FieldByIndex(_, _)
\* reflect.Value.FieldByIndex
FieldByIndex(val, index) ==
    IF Len(index) = 1 THEN heap[val.a].e[index[1]]
    ELSE FieldByIndex(heap[val.a].e[index[1]], Tail(index))

\* fmt.Sprintf("[%d]", i)
IndexSegment(i) == "[" \o ToString(i) \o "]"

(***************************************************************************)
(* The traversal engine.  Each operator takes the context's path and depth *)
(* and the call's pointers map, and hands back a Ret, Panic or Fatal.      *)
(***************************************************************************)
RECURSIVE valueToMap(_, _, _, _), structToMap(_, _, _, _), structFields(_, _, _, _, _, _, _)
RECURSIVE mapToMap(_, _, _, _, _, _), sliceToSlice(_, _, _, _, _, _)

\* valueToMap past the scalar and nil cases, the depth already incremented to
\* depth by enterLevel and within the limit: the cycle check and the switch
valueToMapDescend(path, depth, ptrs, val) ==
    LET kind == Kind(val)
        chk == IF kind \in {"ptr", "map", "slice"}
               THEN checkPointer(path, ptrs, val)
               ELSE [err |-> NoErr, ptrs |-> ptrs]
    IN  IF chk.err # NoErr THEN Ret(Null, chk.err, chk.ptrs)
        ELSE CASE kind \in {"ptr", "iface"} ->
                    valueToMap(withPath(path, ""), depth, chk.ptrs, Elem(val))
               [] kind = "struct" ->
                    structToMap(path, depth, chk.ptrs, val)
               [] kind = "map" ->
                    IF LenV(val) = 0 /\ opts.NullIfEmpty
                    THEN Ret(Null, NoErr, chk.ptrs)
                    ELSE mapToMap(path, depth, chk.ptrs, val, 1, EmptyMap)
               [] kind \in {"slice", "array"} ->
                    IF LenV(val) = 0 THEN
                        IF opts.NullIfEmpty THEN
                            \* v.IsNil() panics on an array
                            IF ~CanBeNil(val) THEN Panic(ValueError, chk.ptrs)
                            ELSE IF IsNil(val) THEN Ret(Null, NoErr, chk.ptrs)
                            ELSE Ret(IRSeq(<<>>), NoErr, chk.ptrs)
                        ELSE Ret(IRSeq(<<>>), NoErr, chk.ptrs)
                    ELSE sliceToSlice(path, depth, chk.ptrs, val, 1, <<>>)
               [] OTHER -> Ret(IRRaw(val), NoErr, chk.ptrs)

\* the body of valueToMap returning the depth error for every value that
\* cannot be entered, the empty slice and map included
valueToMapBodyStrict(path, depth, ptrs, val) ==
    LET kind == Kind(val)
    IN  CASE kind = "string" ->
                Ret(IF val.s = "" /\ opts.NullIfEmpty THEN Null ELSE IRStr(val.s), NoErr, ptrs)
          [] kind = "int" -> Ret(IRInt(val.n), NoErr, ptrs)
          [] OTHER ->
                IF kind \in {"ptr", "iface"} /\ IsNil(val) THEN
                    IF opts.IgnoreNilPointers /\ kind = "ptr"
                    THEN Ret(Null, SkipField, ptrs)
                    ELSE Ret(Null, NoErr, ptrs)
                ELSE IF enterLevelFails(depth + 1) THEN Ret(Null, MaxDepthError(path), ptrs)
                ELSE IF depth + 1 > MaxStack THEN Fatal(ptrs)
                ELSE valueToMapDescend(path, depth + 1, ptrs, val)

\* the body of valueToMap, before its deferred recover
valueToMapBody(path, depth, ptrs, val) ==
    LET kind == Kind(val)
    IN  CASE kind = "string" ->
                Ret(IF val.s = "" /\ opts.NullIfEmpty THEN Null ELSE IRStr(val.s), NoErr, ptrs)
          [] kind = "int" -> Ret(IRInt(val.n), NoErr, ptrs)
          [] OTHER ->
                IF kind \in {"ptr", "iface"} /\ IsNil(val) THEN
                    IF opts.IgnoreNilPointers /\ kind = "ptr"
                    THEN Ret(Null, SkipField, ptrs)
                    ELSE Ret(Null, NoErr, ptrs)
                ELSE IF enterLevelFails(depth + 1) THEN
                    IF Kind(val) \in {"slice", "map"} /\ LenV(val) = 0 THEN
                        IF opts.NullIfEmpty THEN Ret(Null, NoErr, ptrs)
                        ELSE IF Kind(val) = "slice" THEN Ret(IRSeq(<<>>), NoErr, ptrs)
                        ELSE Ret(IRMap(EmptyMap), NoErr, ptrs)
                    ELSE Ret(Null, MaxDepthError(path), ptrs)
                ELSE IF depth + 1 > MaxStack THEN Fatal(ptrs)
                ELSE valueToMapDescend(path, depth + 1, ptrs, val)

\* the deferred function of valueToMap: a panic is recovered, its value is
\* wrapped with the context's path, and it is raised again with panic(...)
recoverValueToMap(path, r) ==
    IF r.panic THEN Panic(WrapJSONError(r.err, path), r.ptrs) ELSE r

\* valueToMap(ctx, v, groups, mode)
valueToMap(path, depth, ptrs, val) ==
    LET r == valueToMapBody(path, depth, ptrs, val)
    IN  recoverValueToMap(path, r)

\* ctx.depth when valueToMap(ctx, v, ...) returns, depth being ctx.depth at the
\* call: enterLevel has incremented it before it fails, the empty slice or
\* map takes the increment back with leaveLevel, any other value returns the
\* error with the increment in place, and a level that was entered is left
\* by the deferred leaveLevel
valueToMapDepth(depth, val) ==
    LET kind == Kind(val)
    IN  IF kind \in {"string", "int"} THEN depth
        ELSE IF kind \in {"ptr", "iface"} /\ IsNil(val) THEN depth
        ELSE IF enterLevelFails(depth + 1) THEN
            IF kind \in {"slice", "map"} /\ LenV(val) = 0
            THEN (depth + 1) - 1
            ELSE depth + 1
        ELSE (depth + 1) - 1

\* structToMap filtering the fields of the top-level struct only
structToMapTopOnly(path, depth, ptrs, val) ==
    LET fields == getFieldsInfo(heap[val.a].t, opts.TagKey)
    IN  structFields(path, depth, ptrs, val,
            IF path = <<>> THEN fields
            ELSE [i \in 1..Len(fields) |-> [fields[i] EXCEPT !.Groups = groups]],
            1, EmptyMap)

\* structToMap(ctx, v, groups, mode)
structToMap(path, depth, ptrs, val) ==
    IF getFieldsInfoErr(heap[val.a].t, opts.TagKey) # NoErr
    THEN Ret(Null, ReflectionError(path, getFieldsInfoErr(heap[val.a].t, opts.TagKey)), ptrs)
    ELSE structFields(path, depth, ptrs, val, getFieldsInfo(heap[val.a].t, opts.TagKey), 1, EmptyMap)

\* the loop of structToMap with the null of NullIfEmpty written before nil
\* pointers are suppressed
structFieldsNullFirst(path, depth, ptrs, val, fields, i, result) ==
    IF i > Len(fields) THEN Ret(IRMap(result), NoErr, ptrs)
    ELSE
      LET f == fields[i]
          fieldPath == withPath(path, f.Name)
          fieldValue == FieldByIndex(val, f.Index)
          isNilPointer == Kind(fieldValue) = "ptr" /\ IsNil(fieldValue)
          isNilOrEmpty == isNilPointer \/ isEmptyValue(fieldValue)
          isZero == isZeroValue(fieldValue)
          loop(p, res) == structFields(path, depth, p, val, fields, i + 1, res)
      IN  IF ~shouldIncludeField(f, opts.GroupMode, groups) THEN loop(ptrs, result)
          ELSE IF f.Anonymous /\ Kind(fieldValue) = "struct" THEN
              LET emb == structToMap(fieldPath, depth, ptrs, fieldValue)
              IN  IF Abnormal(emb) \/ emb.err # NoErr THEN emb
                  ELSE loop(emb.ptrs, emb.val.m @@ result)
          ELSE IF isNilOrEmpty /\ opts.NullIfEmpty THEN
              loop(ptrs, MapSet(result, f.JSONName, Null))
          ELSE IF isNilPointer /\ opts.IgnoreNilPointers THEN loop(ptrs, result)
          ELSE IF (f.OmitEmpty /\ isNilOrEmpty /\ ~opts.NullIfEmpty)
                  \/ (f.OmitZero /\ isZero /\ ~opts.NullIfEmpty) THEN loop(ptrs, result)
          ELSE
              LET r == valueToMap(fieldPath, depth, ptrs, fieldValue)
              IN  IF Abnormal(r) THEN r
                  ELSE IF r.err # NoErr THEN
                      IF r.err.type = "skip_field" THEN loop(r.ptrs, result)
                      ELSE Ret(Null, r.err, r.ptrs)
                  ELSE IF r.val # Null THEN loop(r.ptrs, MapSet(result, f.JSONName, r.val))
                  ELSE IF opts.NullIfEmpty THEN loop(r.ptrs, MapSet(result, f.JSONName, Null))
                  ELSE loop(r.ptrs, result)

\* the loop of structToMap reading and traversing the value of every field,
\* and applying the group filter to the result
structFieldsReadFirst(path, depth, ptrs, val, fields, i, result) ==
    IF i > Len(fields) THEN Ret(IRMap(result), NoErr, ptrs)
    ELSE
      LET f == fields[i]
          r == valueToMap(withPath(path, f.Name), depth, ptrs, FieldByIndex(val, f.Index))
      IN  IF Abnormal(r) THEN r
          ELSE IF r.err # NoErr /\ r.err.type # "skip_field" THEN Ret(Null, r.err, r.ptrs)
          ELSE IF r.err = NoErr /\ r.val # Null
                  /\ shouldIncludeField(f, opts.GroupMode, groups)
          THEN structFields(path, depth, r.ptrs, val, fields, i + 1,
                            MapSet(result, f.JSONName, r.val))
          ELSE structFields(path, depth, r.ptrs, val, fields, i + 1, result)

\* the loop of structToMap over the resolved fields, from field i on
structFields(path, depth, ptrs, val, fields, i, result) ==
    IF i > Len(fields) THEN Ret(IRMap(result), NoErr, ptrs)
    ELSE
      LET f == fields[i]
          fieldPath == withPath(path, f.Name)
          fieldValue == FieldByIndex(val, f.Index)
          isNilPointer == Kind(fieldValue) = "ptr" /\ IsNil(fieldValue)
          isNilOrEmpty == isNilPointer \/ isEmptyValue(fieldValue)
          isZero == isZeroValue(fieldValue)
          loop(p, res) == structFields(path, depth, p, val, fields, i + 1, res)
      IN  IF ~shouldIncludeField(f, opts.GroupMode, groups) THEN loop(ptrs, result)
          ELSE IF f.Anonymous /\ Kind(fieldValue) = "struct" THEN
              LET emb == structToMap(fieldPath, depth, ptrs, fieldValue)
              IN  IF Abnormal(emb) \/ emb.err # NoErr THEN emb
                  ELSE loop(emb.ptrs, emb.val.m @@ result)
          ELSE IF isNilPointer /\ opts.IgnoreNilPointers THEN loop(ptrs, result)
          ELSE IF (f.OmitEmpty /\ isNilOrEmpty /\ ~opts.NullIfEmpty)
                  \/ (f.OmitZero /\ isZero /\ ~opts.NullIfEmpty) THEN loop(ptrs, result)
          ELSE IF isNilOrEmpty /\ opts.NullIfEmpty THEN
              loop(ptrs, MapSet(result, f.JSONName, Null))
          ELSE
              LET r == valueToMap(fieldPath, depth, ptrs, fieldValue)
              IN  IF Abnormal(r) THEN r
                  ELSE IF r.err # NoErr THEN
                      \* err.Error() == "skip_field"
                      IF r.err.type = "skip_field" THEN loop(r.ptrs, result)
                      ELSE Ret(Null, r.err, r.ptrs)
                  ELSE IF r.val # Null THEN loop(r.ptrs, MapSet(result, f.JSONName, r.val))
                  ELSE IF opts.NullIfEmpty THEN loop(r.ptrs, MapSet(result, f.JSONName, Null))
                  ELSE loop(r.ptrs, result)

\* mapToMap(ctx, v, groups, mode): the loop over the map's entries from entry i on
mapToMap(path, depth, ptrs, val, i, resultMap) ==
    IF i > LenV(val) THEN Ret(IRMap(resultMap), NoErr, ptrs)
    ELSE
      LET keyStr == heap[val.a].keys[i]
          r == valueToMap(withPath(path, keyStr), depth, ptrs, heap[val.a].e[i])
      IN  IF Abnormal(r) THEN r
          ELSE IF r.err # NoErr THEN Ret(Null, r.err, r.ptrs)
          ELSE IF r.val # Null \/ opts.NullIfEmpty
               THEN mapToMap(path, depth, r.ptrs, val, i + 1, MapSet(resultMap, keyStr, r.val))
               ELSE mapToMap(path, depth, r.ptrs, val, i + 1, resultMap)

\* sliceToSlice appending every element, the nil ones too
sliceToSliceAppendAll(path, depth, ptrs, val, i, result) ==
    IF i > LenV(val) THEN Ret(IRSeq(result), NoErr, ptrs)
    ELSE
      LET r == valueToMap(withPath(path, IndexSegment(i - 1)), depth, ptrs, heap[val.a].e[i])
      IN  IF Abnormal(r) THEN r
          ELSE IF r.err # NoErr THEN Ret(Null, r.err, r.ptrs)
          ELSE sliceToSlice(path, depth, r.ptrs, val, i + 1, Append(result, r.val))

\* sliceToSlice(ctx, v, groups, mode): the loop over the elements from element i on
sliceToSlice(path, depth, ptrs, val, i, result) ==
    IF i > LenV(val) THEN Ret(IRSeq(result), NoErr, ptrs)
    ELSE
      LET r == valueToMap(withPath(path, IndexSegment(i - 1)), depth, ptrs, heap[val.a].e[i])
      IN  IF Abnormal(r) THEN r
          ELSE IF r.err # NoErr THEN Ret(Null, r.err, r.ptrs)
          ELSE IF r.val # Null \/ opts.NullIfEmpty
               THEN sliceToSlice(path, depth, r.ptrs, val, i + 1, Append(result, r.val))
               ELSE sliceToSlice(path, depth, r.ptrs, val, i + 1, result)

(***************************************************************************)
(* The public entry points.  What a call hands back: data (the tree handed *)
(* to the JSON encoder, or the map returned), err, and whether the call    *)
(* ended in a panic or in the runtime's fatal abort instead of returning.  *)
(***************************************************************************)
Returned(data, err) == [data |-> data, err |-> err, panic |-> FALSE, fatal |-> FALSE]
Panicked(err) == [data |-> Null, err |-> err, panic |-> TRUE, fatal |-> FALSE]
Aborted == [data |-> Null, err |-> NoErr, panic |-> FALSE, fatal |-> TRUE]
NoRet == Returned(Null, NoErr)

\* reflect.ValueOf(v) of a non-nil v
ValueOf(val) == [val EXCEPT !.boxed = FALSE]

\* newContext(opts).pointers
NoPointers == <<>>

\* the deferred function of the entry points, run when the traversal
\* panicked with r.err: it wraps the value and panics again
recoverEntry(r) == Panicked(WrapJSONError(r.err, <<"Root">>))

\* the entry points' handling of valueToMap's error: WrapJSONError(err, "Root")
wrapEntryError(err) == WrapJSONError(err, <<"Root">>)

\* MarshalByGroupsWithOptions(v, opts, groups...)
MarshalByGroupsWithOptions(val) ==
    IF val = NilV THEN Returned(Null, NoErr)
    ELSE LET r == valueToMap(<<>>, 0, NoPointers, ValueOf(val))
         IN  IF r.fatal THEN Aborted
             ELSE IF r.panic THEN recoverEntry(r)
             ELSE IF r.err # NoErr THEN Returned(Null, wrapEntryError(r.err))
             ELSE Returned(r.val, NoErr)

\* MarshalToMapWithOptions(v, opts, groups...)
MarshalToMapWithOptions(val) ==
    IF val = NilV THEN Returned(Null, NoErr)
    ELSE LET r == valueToMap(<<>>, 0, NoPointers, ValueOf(val))
         IN  IF r.fatal THEN Aborted
             ELSE IF r.panic THEN recoverEntry(r)
             ELSE IF r.err # NoErr THEN Returned(Null, wrapEntryError(r.err))
             ELSE IF r.val.k = "map" THEN Returned(r.val, NoErr)
             ELSE Returned(IRMap(MapSet(EmptyMap, "value", r.val)), NoErr)

(***************************************************************************)
(* The value graphs of SpecMarshal: MaxNodes structs of type Node at the   *)
(* addresses 1..MaxNodes, node i holding ID = i and Next = nx[i] (0: nil); *)
(* node 1 may also hold a map or a slice, which lives at its own address.  *)
(***************************************************************************)
Nodes == 1..MaxNodes
MapAddr == MaxNodes + 1
SliceAddr == MaxNodes + 2

\* the contents of node 1's Data map (key "self") or Items slice
MapContents ==
    {<<>>} \cup {<<Boxed(PtrV(j))>> : j \in 0..MaxNodes} \cup {<<Boxed(ArrayV(0))>>}
SliceContents ==
    {<<>>} \cup {<<PtrV(j)>> : j \in 0..MaxNodes}
        \cup {<<PtrV(0), PtrV(j)>> : j \in Nodes}
Extras ==
    {[kind |-> "none", e |-> <<>>]}
        \cup {[kind |-> "map", e |-> es] : es \in MapContents}
        \cup {[kind |-> "slice", e |-> es] : es \in SliceContents}

\* the Next pointers; the nodes are numbered in the order the Next chain from
\* node 1 first reaches them, which loses no graph up to renaming
NextChoices == {nx \in [Nodes -> 0..MaxNodes] : \A i \in Nodes : nx[i] <= i + 1}

MakeHeap(nx, ex) ==
    [a \in 1..(MaxNodes + 2) |->
        CASE a \in Nodes ->
                [t |-> "Node",
                 e |-> << IntV(a), PtrV(nx[a]),
                          IF a = 1 /\ ex.kind = "slice" THEN SliceV(SliceAddr) ELSE SliceV(0),
                          IF a = 1 /\ ex.kind = "map" THEN MapV(MapAddr) ELSE MapV(0) >>,
                 keys |-> <<>>]
          [] a = MapAddr ->
                [t |-> "map", e |-> IF ex.kind = "map" THEN ex.e ELSE <<>>,
                 keys |-> IF ex.kind = "map" /\ ex.e # <<>> THEN <<"self">> ELSE <<>>]
          [] OTHER ->
                [t |-> "slice", e |-> IF ex.kind = "slice" THEN ex.e ELSE <<>>, keys |-> <<>>]]

\* the any handed to the entry point: nil, a nil *Node, &node1, or node1 by value
Roots == {NilV, Boxed(PtrV(0)), Boxed(PtrV(1)), Boxed(StructV(1))}

\* the maximum depth and DisableCircularCheck of a call
DepthOptions ==
    {[MaxDepth |-> d, DisableCircularCheck |-> FALSE] : d \in 0..MaxDepthOpt}
        \cup {[MaxDepth |-> d, DisableCircularCheck |-> TRUE] : d \in {0, MaxDepthOpt}}

MarshalOptions ==
    {[GroupMode |-> GroupModeOr, TagKey |-> "groups",
      NullIfEmpty |-> ne, IgnoreNilPointers |-> ip,
      MaxDepth |-> d.MaxDepth, DisableCircularCheck |-> d.DisableCircularCheck] :
        ne \in BOOLEAN, ip \in BOOLEAN, d \in DepthOptions}

MarshalGroups == {<<"all">>, <<"base">>}

IdleField == [Groups |-> <<>>]
IdleHeap == <<>>

\* the cache untouched, for the specifications that do not use it
CacheIdle ==
    /\ globalCache = <<>>
    /\ gor = <<>>
    /\ pending = <<>>
    /\ accessed = <<>>
    /\ fault = "none"
    /\ lookups = <<>>

\* no marshal calls running at once, for the specifications without them
CallsIdle ==
    /\ calls = <<>>
    /\ pointerMaps = <<>>

\* no entry cached, no call made yet, and no type whose inspection panics
WarmIdle ==
    /\ cached = <<>>
    /\ outputs = <<>>
    /\ faulty = {}

InitMarshal ==
    /\ pc = "start"
    /\ field = IdleField
    /\ included = FALSE
    /\ v \in Roots
    \* a nil argument reaches no part of the graph: one graph stands for all
    /\ IF v \in {NilV, Boxed(PtrV(0))}
       THEN heap = MakeHeap([i \in Nodes |-> 0], [kind |-> "none", e |-> <<>>])
       ELSE \E nx \in NextChoices, ex \in Extras : heap = MakeHeap(nx, ex)
    /\ opts \in MarshalOptions
    /\ groups \in MarshalGroups
    /\ ret = NoRet
    /\ CacheIdle
    /\ CallsIdle
    /\ WarmIdle

CallMarshalByGroupsWithOptions ==
    /\ pc = "start"
    /\ ret' = MarshalByGroupsWithOptions(v)
    /\ pc' = "done"
    /\ UNCHANGED <<field, groups, opts, included, heap, v>>
    /\ UNCHANGED cacheVars
    /\ UNCHANGED callVars
    /\ UNCHANGED warmVars

CallMarshalToMapWithOptions ==
    /\ pc = "start"
    /\ ret' = MarshalToMapWithOptions(v)
    /\ pc' = "done"
    /\ UNCHANGED <<field, groups, opts, included, heap, v>>
    /\ UNCHANGED cacheVars
    /\ UNCHANGED callVars
    /\ UNCHANGED warmVars

NextMarshal == CallMarshalByGroupsWithOptions \/ CallMarshalToMapWithOptions

SpecMarshal == InitMarshal /\ [][NextMarshal]_vars

(***************************************************************************)
(* SpecFields: the options are built from DefaultOptions by the builder    *)
(* methods, and one entry point is then called on a struct of the omit     *)
(* tests.  The struct lives at address 1; the Address values its Ptr       *)
(* field, its Slice's element, its Map's value, its Home field and its     *)
(* embedded Address hold live at 2..6, each at an address of its own; the  *)
(* Slice's backing array is at 7 and the Map at 8; an empty slice and an   *)
(* empty map that the Slice and the Map may hold live at 9 and 10.         *)
(***************************************************************************)
\* the default MaxDepth of the README's option table
DefaultMaxDepth == 32

\* DefaultOptions()
DefaultOptions ==
    [GroupMode |-> GroupModeOr, TagKey |-> "groups",
     NullIfEmpty |-> FALSE, IgnoreNilPointers |-> TRUE,
     MaxDepth |-> DefaultMaxDepth, DisableCircularCheck |-> FALSE]

\* Options.WithGroupMode(mode)
WithGroupMode(o, mode) == [o EXCEPT !.GroupMode = mode]

\* Options.WithNullIfEmpty(enable): enabling it switches IgnoreNilPointers off
WithNullIfEmpty(o, enable) ==
    [o EXCEPT !.NullIfEmpty = enable,
              !.IgnoreNilPointers = IF enable THEN FALSE ELSE @]

\* Options.WithIgnoreNilPointers(enable)
WithIgnoreNilPointers(o, enable) == [o EXCEPT !.IgnoreNilPointers = enable]

\* Options.WithMaxDepth(depth)
WithMaxDepth(o, depth) == [o EXCEPT !.MaxDepth = depth]

\* an Address with both fields set
AddressValue ==
    [t |-> "Address", e |-> <<StrV("street"), StrV("zip")>>, keys |-> <<>>]

\* what the Slice field holds: nil, an empty slice, one *Address, a nil
\* pointer followed by one *Address, or (as a slice of slices) one empty
\* slice; what the Map field holds: nil, an empty map, one Address under
\* the key "k", or (as a map of maps) one empty map under "k"
SliceChoices == {"nil", "empty", "one", "nilFirst", "emptyInner"}
MapChoices == {"nil", "empty", "one", "emptyInner"}

\* the heap of a struct of type t with Int = n, the Slice and the Map as
\* chosen, and Ptr nil or pointing to an Address
OmitHeap(t, n, sl, mp, p) ==
    << [t |-> t,
        e |-> << IntV(n),
                 IF sl = "nil" THEN SliceV(0) ELSE SliceV(7),
                 IF mp = "nil" THEN MapV(0) ELSE MapV(8),
                 IF p THEN PtrV(2) ELSE PtrV(0),
                 StructV(5),
                 StructV(6) >>,
        keys |-> <<>>],
       AddressValue, AddressValue, AddressValue, AddressValue, AddressValue,
       [t |-> "slice",
        e |-> CASE sl = "one" -> <<PtrV(3)>>
                [] sl = "nilFirst" -> <<PtrV(0), PtrV(3)>>
                [] sl = "emptyInner" -> <<SliceV(9)>>
                [] OTHER -> <<>>,
        keys |-> <<>>],
       [t |-> "map",
        e |-> CASE mp = "one" -> <<StructV(4)>>
                [] mp = "emptyInner" -> <<MapV(10)>>
                [] OTHER -> <<>>,
        keys |-> IF mp \in {"one", "emptyInner"} THEN <<"k">> ELSE <<>>],
       [t |-> "slice", e |-> <<>>, keys |-> <<>>],
       [t |-> "map", e |-> <<>>, keys |-> <<>>] >>

OmitTypes == {"OmitPlain", "OmitEmpty", "OmitZero", "OmitBoth"}

\* the groups requested of the omit structs
FieldsGroups == {<<>>, <<"public">>, <<"internal">>, <<"public", "admin">>}

\* the depths handed to WithMaxDepth: no limit, and the limits that stop a
\* call at the fields of the struct passed by value and by pointer
FieldsDepths == {0, 2, 3}

InitFields ==
    /\ pc = "start"
    /\ field = IdleField
    /\ included = FALSE
    /\ v \in {Boxed(PtrV(1)), Boxed(StructV(1))}
    /\ \E t \in OmitTypes, n \in 0..MaxInt, sl \in SliceChoices, mp \in MapChoices, p \in BOOLEAN :
           heap = OmitHeap(t, n, sl, mp, p)
    /\ opts = DefaultOptions
    /\ groups \in FieldsGroups
    /\ ret = NoRet
    /\ CacheIdle
    /\ CallsIdle
    /\ WarmIdle

CallWithGroupMode ==
    /\ pc = "start"
    /\ \E mode \in {GroupModeOr, GroupModeAnd} : opts' = WithGroupMode(opts, mode)
    /\ UNCHANGED <<pc, field, groups, included, heap, v, ret>>
    /\ UNCHANGED cacheVars
    /\ UNCHANGED callVars
    /\ UNCHANGED warmVars

CallWithNullIfEmpty ==
    /\ pc = "start"
    /\ \E enable \in BOOLEAN : opts' = WithNullIfEmpty(opts, enable)
    /\ UNCHANGED <<pc, field, groups, included, heap, v, ret>>
    /\ UNCHANGED cacheVars
    /\ UNCHANGED callVars
    /\ UNCHANGED warmVars

CallWithIgnoreNilPointers ==
    /\ pc = "start"
    /\ \E enable \in BOOLEAN : opts' = WithIgnoreNilPointers(opts, enable)
    /\ UNCHANGED <<pc, field, groups, included, heap, v, ret>>
    /\ UNCHANGED cacheVars
    /\ UNCHANGED callVars
    /\ UNCHANGED warmVars

CallWithMaxDepth ==
    /\ pc = "start"
    /\ \E depth \in FieldsDepths : opts' = WithMaxDepth(opts, depth)
    /\ UNCHANGED <<pc, field, groups, included, heap, v, ret>>
    /\ UNCHANGED cacheVars
    /\ UNCHANGED callVars
    /\ UNCHANGED warmVars

NextFields ==
    \/ CallWithGroupMode
    \/ CallWithNullIfEmpty
    \/ CallWithIgnoreNilPointers
    \/ CallWithMaxDepth
    \/ CallMarshalByGroupsWithOptions
    \/ CallMarshalToMapWithOptions

SpecFields == InitFields /\ [][NextFields]_vars

(***************************************************************************)
(* SpecWarm: marshal calls made one after the other on one value, with the *)
(* tag key set between them and the global cache cleared between them.     *)
(* The cache holds far fewer types than its capacity, so an entry stays    *)
(* until the cache is cleared.                                             *)
(***************************************************************************)
\* the tag keys handed to WithTagKey
TagKeys == {"groups", "roles"}

\* Options.WithTagKey(key)
WithTagKey(o, key) == [o EXCEPT !.TagKey = key]

\* the struct types structToMap looks up in a call on val: the type of the
\* struct handed over, when the traversal gets to it (the structs behind it
\* are of the same type)
LookedUp(val) ==
    IF val = NilV \/ val.a = 0 THEN {}
    ELSE IF val.k = "ptr" /\ enterLevelFails(2) THEN {}
    ELSE {heap[val.a].t}

\* the cache after the lookups of a call: a type without an entry gets one,
\* resolved with the tag key of the call
StoreLookedUp(c, types, tagKey) ==
    [t \in DOMAIN c \cup {x \in types : getFieldsInfoErr(x, tagKey) = NoErr} |->
        IF t \in DOMAIN c THEN c[t] ELSE tagKey]

InitWarm ==
    /\ pc = "serving"
    /\ field = IdleField
    /\ included = FALSE
    /\ v \in {Boxed(PtrV(1)), Boxed(StructV(1))}
    /\ \E nx \in NextChoices : heap = MakeHeap(nx, [kind |-> "none", e |-> <<>>])
    /\ opts = DefaultOptions
    /\ groups \in {<<>>} \cup MarshalGroups
    /\ ret = NoRet
    /\ CacheIdle
    /\ CallsIdle
    /\ WarmIdle

CallWithTagKey ==
    /\ pc = "serving"
    /\ \E key \in TagKeys : opts' = WithTagKey(opts, key)
    /\ UNCHANGED <<pc, field, groups, included, heap, v, ret>>
    /\ UNCHANGED cacheVars
    /\ UNCHANGED callVars
    /\ UNCHANGED warmVars

\* MarshalToMapWithOptions(v, opts, groups...) with the cache as the earlier
\* calls left it
CallMarshalCached ==
    /\ pc = "serving"
    /\ Len(outputs) < MaxCalls
    /\ ret' = MarshalToMapWithOptions(v)
    /\ cached' = StoreLookedUp(cached, LookedUp(ValueOf(v)), opts.TagKey)
    /\ outputs' = Append(outputs, [opts |-> opts, cache |-> cached, ret |-> ret'])
    /\ UNCHANGED <<pc, field, groups, opts, included, heap, v, faulty>>
    /\ UNCHANGED cacheVars
    /\ UNCHANGED callVars

\* globalCache.Clear()
CallGlobalCacheClear ==
    /\ pc = "serving"
    /\ cached' = <<>>
    /\ UNCHANGED <<pc, field, groups, opts, included, heap, v, ret, outputs, faulty>>
    /\ UNCHANGED cacheVars
    /\ UNCHANGED callVars

NextWarm == CallWithTagKey \/ CallMarshalCached \/ CallGlobalCacheClear

SpecWarm == InitWarm /\ [][NextWarm]_vars

(***************************************************************************)
(* SpecResolve: the calls of SpecWarm on a value whose struct type may be  *)
(* one that reflection panics on while parseFields inspects it.            *)
(***************************************************************************)
InitResolve ==
    /\ pc = "serving"
    /\ field = IdleField
    /\ included = FALSE
    /\ v \in {Boxed(PtrV(1)), Boxed(StructV(1))}
    /\ \E nx \in NextChoices : heap = MakeHeap(nx, [kind |-> "none", e |-> <<>>])
    /\ opts = DefaultOptions
    /\ groups \in {<<>>} \cup MarshalGroups
    /\ ret = NoRet
    /\ CacheIdle
    /\ CallsIdle
    /\ cached = <<>>
    /\ outputs = <<>>
    /\ faulty \in SUBSET {"Node"}

NextResolve == CallWithTagKey \/ CallMarshalCached \/ CallGlobalCacheClear

SpecResolve == InitResolve /\ [][NextResolve]_vars

(***************************************************************************)
(* SpecEmbedded: one entry point is called on a ComplexUser, whose Profile *)
(* member carries the groups of the marshal tests or the group internal.   *)
(* The ComplexUser lives at address 1, its User at 2, its Profile at 3 and *)
(* the Profile's BaseInfo at 4.                                            *)
(***************************************************************************)
ComplexUserTypes == {"ComplexUser", "ComplexUserInternal"}

ComplexUserHeap(t, n) ==
    << [t |-> t, e |-> <<StructV(2), StructV(3)>>, keys |-> <<>>],
       [t |-> "User", e |-> <<IntV(n), StrV("email"), StrV("password")>>, keys |-> <<>>],
       [t |-> "Profile", e |-> <<StructV(4), IntV(1), StrV("bio")>>, keys |-> <<>>],
       [t |-> "BaseInfo", e |-> <<StrV("created_at")>>, keys |-> <<>>] >>

InitEmbedded ==
    /\ pc = "start"
    /\ field = IdleField
    /\ included = FALSE
    /\ v \in {Boxed(PtrV(1)), Boxed(StructV(1))}
    /\ \E t \in ComplexUserTypes, n \in 0..MaxInt : heap = ComplexUserHeap(t, n)
    /\ opts = DefaultOptions
    /\ groups \in SeqsUpTo(GroupNames, MaxGroups)
    /\ ret = NoRet
    /\ CacheIdle
    /\ CallsIdle
    /\ WarmIdle

NextEmbedded ==
    \/ CallWithGroupMode
    \/ CallMarshalByGroupsWithOptions
    \/ CallMarshalToMapWithOptions

SpecEmbedded == InitEmbedded /\ [][NextEmbedded]_vars

(***************************************************************************)
(* SpecFilter: shouldIncludeField applied to one field and one request.    *)
(***************************************************************************)
GroupLists == SeqsUpTo(GroupNames, MaxGroups)

FilterOptions ==
    {[GroupMode |-> m, TagKey |-> "groups",
      NullIfEmpty |-> FALSE, IgnoreNilPointers |-> TRUE,
      MaxDepth |-> 0, DisableCircularCheck |-> FALSE] : m \in {GroupModeOr, GroupModeAnd}}

InitFilter ==
    /\ pc = "start"
    /\ field \in {[Groups |-> g] : g \in GroupLists}
    /\ groups \in GroupLists
    /\ opts \in FilterOptions
    /\ included = FALSE
    /\ heap = IdleHeap
    /\ v = NilV
    /\ ret = NoRet
    /\ CacheIdle
    /\ CallsIdle
    /\ WarmIdle

CallShouldIncludeField ==
    /\ pc = "start"
    /\ included' = shouldIncludeField(field, opts.GroupMode, groups)
    /\ pc' = "done"
    /\ UNCHANGED <<field, groups, opts, heap, v, ret>>
    /\ UNCHANGED cacheVars
    /\ UNCHANGED callVars
    /\ UNCHANGED warmVars

NextFilter == CallShouldIncludeField

SpecFilter == InitFilter /\ [][NextFilter]_vars

(***************************************************************************)
(* The group filter's modes (SpecFilter).                                  *)
(***************************************************************************)
\* C1: in ANY mode with a non-empty request, a field is included exactly when
\* its group set and the requested set share a group.
C1_AnyModeIntersects ==
    (pc = "done" /\ opts.GroupMode = GroupModeOr /\ groups # <<>>)
        => (included <=> Range(field.Groups) \cap Range(groups) # {})

\* the scenario of the claim: requested public, one field tagged public (in)
\* and one tagged admin (out); the witness is the excluded one, C1_WitnessIn
\* the included one
C1_Witness ==
    /\ pc = "done"
    /\ opts.GroupMode = GroupModeOr
    /\ groups = <<"public">>
    /\ field.Groups = <<"admin">>
    /\ ~included

C1_WitnessIn ==
    /\ pc = "done"
    /\ opts.GroupMode = GroupModeOr
    /\ groups = <<"public">>
    /\ field.Groups = <<"public">>
    /\ included

\* C2: in ALL mode with a non-empty request, a field is included exactly when
\* every requested group is in its group set.
C2_AllModeSuperset ==
    (pc = "done" /\ opts.GroupMode = GroupModeAnd /\ groups # <<>>)
        => (included <=> Range(groups) \subseteq Range(field.Groups))

\* a field holding one of two requested groups is left out in ALL mode
C2_Witness ==
    /\ pc = "done"
    /\ opts.GroupMode = GroupModeAnd
    /\ groups = <<"public", "admin">>
    /\ field.Groups = <<"admin">>
    /\ ~included

C2_WitnessIn ==
    /\ pc = "done"
    /\ opts.GroupMode = GroupModeAnd
    /\ groups = <<"public", "admin">>
    /\ field.Groups = <<"admin", "public">>
    /\ included

(***************************************************************************)
(* The reference graph of the value handed to the entry point, as the      *)
(* claims speak of it.                                                     *)
(***************************************************************************)
\* the addresses a value refers to: a pointer's target, the pointers held by
\* a slice's elements or a map's values
RefsOf(val) ==
    CASE val.k = "ptr" -> {val.a} \ {0}
      [] val.k \in {"slice", "map"} /\ val.a # 0 ->
            {heap[val.a].e[j].a : j \in {x \in 1..Len(heap[val.a].e) : heap[val.a].e[x].k = "ptr"}} \ {0}
      [] OTHER -> {}

\* the nodes that node i refers to through fields the group filter lets pass
Succ(i) ==
    LET fields == parseFields(heap[i].t, opts.TagKey)
    IN  UNION {RefsOf(FieldByIndex(StructV(i), fields[j].Index)) :
                  j \in {x \in 1..Len(fields) : shouldIncludeField(fields[x], opts.GroupMode, groups)}}

RECURSIVE ReachableFrom(_, _)
\* the nodes reachable from the nodes of S in n steps or fewer
ReachableFrom(S, n) ==
    IF n = 0 THEN S
    ELSE LET step == S \cup UNION {Succ(i) : i \in S}
         IN  IF step = S THEN S ELSE ReachableFrom(step, n - 1)

\* whether the entry point's argument is (a pointer to) node 1, not nil
RootIsNode == v.k \in {"ptr", "struct"} /\ v.a # 0

\* the nodes the traversal can reach from the argument
Reached == IF RootIsNode THEN ReachableFrom({v.a}, MaxNodes) ELSE {}

\* a cycle of the reference graph is reachable from the argument
CycleReachable ==
    \E i \in Reached : i \in ReachableFrom(Succ(i), MaxNodes)

RECURSIVE NextChainLen(_, _)
\* the number of nodes on the Next chain from node i, or 0 when the chain
\* does not end in nil within n nodes (it runs into a cycle)
NextChainLen(i, n) ==
    IF i = 0 THEN 0
    ELSE IF n = 0 THEN -1
    ELSE LET rest == NextChainLen(heap[i].e[2].a, n - 1)
         IN  IF rest = -1 THEN -1 ELSE rest + 1

\* the argument is a chain of ChainL structs linked through the Next pointer
\* and nothing else: no map, no slice
ChainL == IF RootIsNode THEN NextChainLen(v.a, MaxNodes) ELSE -1
IsChain ==
    /\ RootIsNode
    /\ ChainL >= 1
    /\ heap[1].e[3].a = 0
    /\ heap[1].e[4].a = 0

\* the link field Next passes the group filter
LinkIncluded ==
    \E j \in 1..Len(parseFields("Node", opts.TagKey)) :
        /\ parseFields("Node", opts.TagKey)[j].Name = "Next"
        /\ shouldIncludeField(parseFields("Node", opts.TagKey)[j], opts.GroupMode, groups)

\* the nesting levels of a chain: one for each struct and one for each pointer
\* that is followed, the argument's own pointer included
ChainLevels == IF v.k = "ptr" THEN 2 * ChainL ELSE 2 * ChainL - 1

Succeeded == ~ret.panic /\ ~ret.fatal /\ ret.err = NoErr
Failed(type) == ~ret.panic /\ ~ret.fatal /\ ret.err.type = type

(***************************************************************************)
(* Cycles and depth (SpecMarshal).                                         *)
(***************************************************************************)
\* a slice or map of the value holds a nil pointer, which the traversal
\* answers with the drop signal when nil pointers are suppressed
HoldsNilElement ==
    \E a \in {MapAddr, SliceAddr} :
        \E j \in 1..Len(heap[a].e) : heap[a].e[j].k = "ptr" /\ heap[a].e[j].a = 0

\* the Next pointers alone close a cycle
NextCycle == RootIsNode /\ LinkIncluded /\ NextChainLen(v.a, MaxNodes) = -1

CycleCase ==
    /\ pc = "done"
    /\ ~opts.DisableCircularCheck
    /\ CycleReachable

C3_WitnessDepthFirst ==
    /\ CycleCase
    /\ Failed("MaxDepthExceeded")

ChainCase ==
    /\ pc = "done"
    /\ IsChain
    /\ LinkIncluded

\* C4: a chain of L structs linked by pointer, marshalled with a maximum depth
\* D, 0 < D < L, returns a depth-exceeded error.
C4_ChainDeeperThanLimitFails ==
    (ChainCase /\ 0 < opts.MaxDepth /\ opts.MaxDepth < ChainL)
        => Failed("MaxDepthExceeded")

C4_Witness ==
    /\ ChainCase
    /\ ChainL = MaxNodes
    /\ opts.MaxDepth = MaxNodes - 1
    /\ Failed("MaxDepthExceeded")

\* C5 as stated: a chain of L structs linked by pointer, marshalled with a
\* maximum depth D >= L, succeeds without a depth-exceeded error.
C5_ChainWithinLimitSucceeds ==
    (ChainCase /\ opts.MaxDepth >= ChainL) => Succeeded

\* C5, amended: every struct and every pointer followed counts one level, so
\* the chain succeeds when D is at least 2L - 1 (2L when the first struct is
\* itself passed by pointer), and returns depth-exceeded for a smaller
\* positive D.
C5_ChainWithinLevelsSucceeds ==
    (ChainCase /\ opts.MaxDepth > 0) =>
        /\ opts.MaxDepth >= ChainLevels => Succeeded
        /\ opts.MaxDepth < ChainLevels => Failed("MaxDepthExceeded")

\* a chain marshalled with exactly the levels it needs
C5_Witness ==
    /\ ChainCase
    /\ ChainL >= 2
    /\ opts.MaxDepth = ChainLevels
    /\ Succeeded
    /\ ret.data # Null

\* C6: with the maximum depth 0 no call returns a depth-exceeded error.
C6_ZeroDepthIsUnlimited ==
    (pc = "done" /\ opts.MaxDepth = 0) => ret.err.type # "MaxDepthExceeded"

\* the longest chain, marshalled in full without a limit
C6_Witness ==
    /\ ChainCase
    /\ ChainL = MaxNodes
    /\ opts.MaxDepth = 0
    /\ Succeeded
    /\ ret.data # Null

(***************************************************************************)
(* Panics and the drop signal (SpecMarshal).                               *)
(***************************************************************************)
\* C7: no panic escapes a public entry point: a fault of the traversal is
\* returned as an error.
C7_NoPanicEscapes ==
    pc = "done" => ~ret.panic

\* C8: the drop signal of a nil pointer is never returned to the caller, not
\* as the error and not as its cause.
C8_DropSignalNeverReturned ==
    pc = "done" => (ret.err.type # "skip_field" /\ ret.err.cause # "skip_field")

(***************************************************************************)
(* container/list, as fieldCache uses it.  Elements are numbered from 1 in *)
(* the order they are allocated; Root is the list's sentinel l.root and    *)
(* Nil the nil *Element.  A list is the record                             *)
(*   next, prev   the links of the sentinel and of every element           *)
(*   list         whether the element's list field is this list            *)
(*   val          the element's Value: the type whose cacheEntry it holds  *)
(*   len          l.len                                                    *)
(*   alloc        the number of elements allocated so far                  *)
(*   crash        a nil link was dereferenced                              *)
(***************************************************************************)
Root == 0
Nil == -1
Elems == 1..MaxElems
Types == 1..MaxTypes
Callers == 1..MaxCallers

\* list.New()
NewList ==
    [next |-> [x \in 0..MaxElems |-> IF x = Root THEN Root ELSE Nil],
     prev |-> [x \in 0..MaxElems |-> IF x = Root THEN Root ELSE Nil],
     list |-> [e \in Elems |-> FALSE],
     val |-> [e \in Elems |-> 0],
     len |-> 0, alloc |-> 0, crash |-> FALSE]

\* x.next = y and x.prev = y; x may be nil
SetNext(l, x, y) == IF x = Nil THEN [l EXCEPT !.crash = TRUE] ELSE [l EXCEPT !.next[x] = y]
SetPrev(l, x, y) == IF x = Nil THEN [l EXCEPT !.crash = TRUE] ELSE [l EXCEPT !.prev[x] = y]

\* (*List).Init: the sentinel is linked to itself; the elements are not touched
ListInit(l) == [l EXCEPT !.next[Root] = Root, !.prev[Root] = Root, !.len = 0]

\* (*List).insert(e, at)
insert(l, e, at) ==
    LET l1 == [l EXCEPT !.prev[e] = at, !.next[e] = l.next[at]]
        l2 == SetNext(l1, l1.prev[e], e)
        l3 == SetPrev(l2, l2.next[e], e)
    IN  [l3 EXCEPT !.list[e] = TRUE, !.len = @ + 1]

\* (*List).remove(e)
remove(l, e) ==
    LET l1 == SetNext(l, l.prev[e], l.next[e])
        l2 == SetPrev(l1, l1.next[e], l1.prev[e])
    IN  [l2 EXCEPT !.next[e] = Nil, !.prev[e] = Nil, !.list[e] = FALSE, !.len = @ - 1]

\* (*List).move(e, at)
move(l, e, at) ==
    IF e = at THEN l
    ELSE LET l1 == SetNext(l, l.prev[e], l.next[e])
             l2 == SetPrev(l1, l1.next[e], l1.prev[e])
             l3 == [l2 EXCEPT !.prev[e] = at]
             l4 == [l3 EXCEPT !.next[e] = l3.next[at]]
             l5 == SetNext(l4, l4.prev[e], e)
         IN  SetPrev(l5, l5.next[e], e)

\* e.list == l; the sentinel's list field is nil
OwnedBy(l, e) == e \in Elems /\ l.list[e]

\* (*List).MoveToFront(e)
MoveToFront(l, e) ==
    IF ~OwnedBy(l, e) \/ l.next[Root] = e THEN l ELSE move(l, e, Root)

\* (*List).Remove(e)
Remove(l, e) == IF OwnedBy(l, e) THEN remove(l, e) ELSE l

\* (*List).Back()
Back(l) == IF l.len = 0 THEN Nil ELSE l.prev[Root]

\* (*List).PushFront(v): the element allocated is number l.alloc + 1
PushFront(l, value) ==
    LET l0 == IF l.next[Root] = Nil THEN ListInit(l) ELSE l
    IN  insert([l0 EXCEPT !.alloc = @ + 1, !.val[l.alloc + 1] = value], l.alloc + 1, Root)

(***************************************************************************)
(* fieldCache.  A cache is the record of its fields: cache (the index,     *)
(* type -> element), evictList, maxSize and stats; every locked section    *)
(* below takes the record and gives the record it leaves.                  *)
(***************************************************************************)
\* DefaultMaxCacheSize, scaled to the model
DefaultMaxCacheSize == MaxCap

NoStats == [hits |-> 0, misses |-> 0, evictions |-> 0]

\* newFieldCache()
newFieldCache ==
    [cache |-> <<>>, evictList |-> NewList, maxSize |-> DefaultMaxCacheSize, stats |-> NoStats]

\* delete(c.cache, typ)
MapDelete(m, typ) == [t \in DOMAIN m \ {typ} |-> m[t]]

\* c.evict(): the cache it leaves and whether it returned an error
evict(c) ==
    IF c.evictList.len = 0 THEN [c |-> c, err |-> FALSE]
    ELSE LET element == Back(c.evictList)
         IN  IF element = Nil THEN [c |-> c, err |-> FALSE]
             ELSE LET removed == [c EXCEPT !.evictList = Remove(c.evictList, element)]
                  IN  \* the sentinel's Value is not a *cacheEntry
                      IF element = Root THEN [c |-> removed, err |-> TRUE]
                      ELSE IF \E typ \in DOMAIN c.cache : c.cache[typ] = element
                      THEN LET typ == CHOOSE t \in DOMAIN c.cache : c.cache[t] = element
                           IN  [c |-> [removed EXCEPT !.cache = MapDelete(c.cache, typ),
                                                      !.stats.evictions = @ + 1],
                                err |-> FALSE]
                      ELSE [c |-> removed, err |-> TRUE]

RECURSIVE shrinkLoop(_)
\* the loop of SetMaxSize, which stops at evict's first error; hung when a
\* round changes nothing and the loop's condition stays true
shrinkLoop(c) ==
    IF c.evictList.crash THEN [c |-> c, hung |-> FALSE]
    ELSE IF c.evictList.len > c.maxSize /\ c.maxSize > 0
    THEN LET r == evict(c)
         IN  IF r.err THEN [c |-> r.c, hung |-> FALSE]
             ELSE IF r.c = c THEN [c |-> c, hung |-> TRUE]
             ELSE shrinkLoop(r.c)
    ELSE [c |-> c, hung |-> FALSE]

\* (*fieldCache).SetMaxSize(size)
SetMaxSize(c, size) == shrinkLoop([c EXCEPT !.maxSize = size])

\* (*fieldCache).Clear()
Clear(c) ==
    [c EXCEPT !.cache = <<>>, !.evictList = ListInit(c.evictList), !.stats = NoStats]

RECURSIVE evictLoop(_, _)
\* the loop of getFieldsInfo; evict's error is assigned to _, and ignored
\* records whether a round returned one
evictLoop(c, ignored) ==
    IF c.evictList.crash THEN [c |-> c, hung |-> FALSE, ignored |-> ignored]
    ELSE IF c.evictList.len >= c.maxSize /\ c.evictList.len > 0
    THEN LET r == evict(c)
         IN  IF r.c = c THEN [c |-> c, hung |-> TRUE, ignored |-> ignored \/ r.err]
             ELSE evictLoop(r.c, ignored \/ r.err)
    ELSE [c |-> c, hung |-> FALSE, ignored |-> ignored]

\* getFieldsInfo, part 3: under the write lock, the second look at the index,
\* the eviction loop, and the new entry.  result is the type whose field list
\* is returned, err the error returned with it.
getFieldsInfoStore(c, t) ==
    IF t \in DOMAIN c.cache
    THEN [c |-> [c EXCEPT !.evictList = MoveToFront(c.evictList, c.cache[t])],
          hung |-> FALSE, ignored |-> FALSE,
          result |-> c.evictList.val[c.cache[t]], err |-> NoErr]
    ELSE LET r == IF c.maxSize > 0 THEN evictLoop(c, FALSE)
                  ELSE [c |-> c, hung |-> FALSE, ignored |-> FALSE]
         IN  IF r.hung \/ r.c.evictList.crash
             THEN [c |-> r.c, hung |-> r.hung, ignored |-> r.ignored,
                   result |-> 0, err |-> NoErr]
             ELSE [c |-> [r.c EXCEPT !.evictList = PushFront(r.c.evictList, t),
                                     !.cache = (t :> (r.c.evictList.alloc + 1)) @@ r.c.cache,
                                     !.stats.misses = @ + 1],
                   hung |-> FALSE, ignored |-> r.ignored,
                   result |-> t, err |-> NoErr]

\* the goroutine started on a hit: c.evictList.MoveToFront(element) under the lock
promote(c, e) ==
    [c EXCEPT !.evictList = MoveToFront(c.evictList, e)]

\* how the process stands after a locked section
FaultOf(c, hung) ==
    IF c.evictList.crash THEN "crashed" ELSE IF hung THEN "hung" ELSE "none"

(***************************************************************************)
(* SpecCache: MaxCallers goroutines call getFieldsInfo on MaxTypes struct  *)
(* types, while Clear and SetMaxSize are called and the promotion          *)
(* goroutines run whenever the scheduler lets them.  A section under the   *)
(* write lock is one step; the hit path under the read lock is two steps,  *)
(* the load and the store of c.stats.hits++.                               *)
(***************************************************************************)
IdleGor == [st |-> "idle", t |-> 0, e |-> 0, h |-> 0]

\* no lookup completed yet; a lookup is answered from the cache (its result is
\* the value of an entry found in the index) or from parseFields
NoLookups == [fromCache |-> 0, parsed |-> 0]

\* the history after an access to type t, by a hit or by a store
Touch(s, t, hit) == <<[t |-> t, hit |-> hit]>> \o SelectSeq(s, LAMBDA x : x.t # t)
\* the history of the types cache c still holds
Kept(s, c) == SelectSeq(s, LAMBDA x : x.t \in DOMAIN c.cache)

\* no goroutine holds the read lock
NoReader == \A g \in Callers : gor[g].st # "hit"

PendingTotal == LET RECURSIVE Sum(_)
                    Sum(n) == IF n = 0 THEN 0 ELSE pending[n] + Sum(n - 1)
                IN  Sum(MaxElems)

\* the elements a goroutine between its miss and its store will need
Reserved == Cardinality({g \in Callers : gor[g].st = "parsed"})

InitCache ==
    /\ pc = "cache"
    /\ field = IdleField
    /\ groups = <<>>
    /\ opts \in FilterOptions /\ opts.GroupMode = GroupModeOr
    /\ included = FALSE
    /\ heap = IdleHeap
    /\ v = NilV
    /\ ret = NoRet
    /\ globalCache = newFieldCache
    /\ gor = [g \in Callers |-> IdleGor]
    /\ pending = [e \in Elems |-> 0]
    /\ accessed = <<>>
    /\ fault = "none"
    /\ lookups = NoLookups
    /\ CallsIdle
    /\ WarmIdle

Running == pc = "cache" /\ fault = "none"

\* the variables SpecCache leaves alone
nonCacheVars ==
    <<pc, field, groups, opts, included, heap, v, ret, calls, pointerMaps, cached, outputs,
      faulty>>

\* getFieldsInfo, part 1, hit: RLock, the entry is found, c.stats.hits is read
GetFieldsInfoHit(g, t) ==
    /\ Running
    /\ gor[g].st = "idle"
    /\ t \in DOMAIN globalCache.cache
    /\ globalCache.stats.hits < MaxHits
    /\ PendingTotal + Cardinality({x \in Callers : gor[x].st = "hit"}) < MaxPending
    /\ gor' = [gor EXCEPT ![g] = [st |-> "hit", t |-> t, e |-> globalCache.cache[t],
                                   h |-> globalCache.stats.hits]]
    /\ accessed' = Touch(accessed, t, TRUE)
    /\ UNCHANGED <<globalCache, pending, fault, lookups>>
    /\ UNCHANGED nonCacheVars

\* getFieldsInfo, part 1, hit: c.stats.hits is written, RUnlock, and the
\* promotion goroutine is started
GetFieldsInfoHitDone(g) ==
    /\ Running
    /\ gor[g].st = "hit"
    /\ globalCache' = [globalCache EXCEPT !.stats.hits = gor[g].h + 1]
    /\ pending' = [pending EXCEPT ![gor[g].e] = @ + 1]
    /\ gor' = [gor EXCEPT ![g] = IdleGor]
    /\ lookups' = [lookups EXCEPT !.fromCache = @ + 1]
    /\ UNCHANGED <<accessed, fault>>
    /\ UNCHANGED nonCacheVars

\* getFieldsInfo, parts 1 and 2, miss: RLock, no entry, RUnlock, parseFields
GetFieldsInfoMiss(g, t) ==
    /\ Running
    /\ gor[g].st = "idle"
    /\ t \notin DOMAIN globalCache.cache
    /\ globalCache.evictList.alloc + Reserved < MaxElems
    /\ gor' = [gor EXCEPT ![g] = [st |-> "parsed", t |-> t, e |-> 0, h |-> 0]]
    /\ UNCHANGED <<globalCache, pending, accessed, fault, lookups>>
    /\ UNCHANGED nonCacheVars

\* getFieldsInfo, part 3: Lock ... Unlock
GetFieldsInfoStore(g) ==
    /\ Running
    /\ gor[g].st = "parsed"
    /\ NoReader
    /\ LET r == getFieldsInfoStore(globalCache, gor[g].t)
       IN  /\ globalCache' = r.c
           /\ fault' = FaultOf(r.c, r.hung)
           /\ accessed' = Kept(Touch(accessed, gor[g].t, FALSE), r.c)
    /\ lookups' = IF gor[g].t \in DOMAIN globalCache.cache
                  THEN [lookups EXCEPT !.fromCache = @ + 1]
                  ELSE [lookups EXCEPT !.parsed = @ + 1]
    /\ gor' = [gor EXCEPT ![g] = IdleGor]
    /\ UNCHANGED pending
    /\ UNCHANGED nonCacheVars

\* a promotion goroutine runs
Promote(e) ==
    /\ Running
    /\ pending[e] > 0
    /\ NoReader
    /\ globalCache' = promote(globalCache, e)
    /\ fault' = FaultOf(globalCache', FALSE)
    /\ pending' = [pending EXCEPT ![e] = @ - 1]
    /\ UNCHANGED <<gor, accessed, lookups>>
    /\ UNCHANGED nonCacheVars

\* ClearCache() / (*fieldCache).Clear()
CallClear ==
    /\ Running
    /\ NoReader
    /\ globalCache' = Clear(globalCache)
    /\ accessed' = <<>>
    /\ lookups' = NoLookups
    /\ UNCHANGED <<gor, pending, fault>>
    /\ UNCHANGED nonCacheVars

\* SetMaxCacheSize(size)
CallSetMaxSize(size) ==
    /\ Running
    /\ NoReader
    /\ LET r == SetMaxSize(globalCache, size)
       IN  /\ globalCache' = r.c
           /\ fault' = FaultOf(r.c, r.hung)
           /\ accessed' = Kept(accessed, r.c)
    /\ UNCHANGED <<gor, pending, lookups>>
    /\ UNCHANGED nonCacheVars

NextCache ==
    \/ \E g \in Callers, t \in Types : GetFieldsInfoHit(g, t)
    \/ \E g \in Callers : GetFieldsInfoHitDone(g)
    \/ \E g \in Callers, t \in Types : GetFieldsInfoMiss(g, t)
    \/ \E g \in Callers : GetFieldsInfoStore(g)
    \/ \E e \in Elems : Promote(e)
    \/ CallClear
    \/ \E size \in 0..MaxCap : CallSetMaxSize(size)

SpecCache == InitCache /\ [][NextCache]_vars

(***************************************************************************)
(* The cache's capacity and its two structures (SpecCache).                *)
(***************************************************************************)
\* nothing is in flight: every caller has returned, every promotion has run
Quiescent ==
    /\ Running
    /\ \A g \in Callers : gor[g].st = "idle"
    /\ \A e \in Elems : pending[e] = 0

RECURSIVE LinkedFrom(_, _)
\* the elements met walking the list from x through next, n links at most,
\* until the sentinel or nil
LinkedFrom(x, n) ==
    IF x = Root \/ x = Nil \/ n = 0 THEN {}
    ELSE {x} \cup LinkedFrom(globalCache.evictList.next[x], n - 1)

\* the elements linked in the eviction list
Linked == LinkedFrom(globalCache.evictList.next[Root], MaxElems)
\* the elements the index holds
Indexed == {globalCache.cache[t] : t \in DOMAIN globalCache.cache}

\* C9: with a positive capacity, once the operations have completed the
\* number of cached types does not exceed the capacity.
C9_SizeWithinCapacity ==
    (Quiescent /\ globalCache.maxSize > 0)
        => Cardinality(DOMAIN globalCache.cache) <= globalCache.maxSize

\* C10: the index and the eviction list hold the same entries, and the list's
\* length is the index's size.
C10_IndexMatchesList ==
    Running =>
        /\ Indexed = Linked
        /\ globalCache.evictList.len = Cardinality(DOMAIN globalCache.cache)

(***************************************************************************)
(* Callers that miss on the same type at once (SpecCache).                 *)
(***************************************************************************)
\* the linked elements whose entry was made for type t
EntriesOf(t) == {e \in Linked : globalCache.evictList.val[e] = t}

\* caller g stores type t while another caller that missed on t with it is
\* still in flight, or after such a caller has stored t
RacingStore(g, t) ==
    /\ GetFieldsInfoStore(g)
    /\ gor[g].t = t
    /\ \/ \E o \in Callers \ {g} : gor[o].st = "parsed" /\ gor[o].t = t
       \/ t \in DOMAIN globalCache.cache

\* C11: when callers miss on the same type at once, each store returns the
\* type's field list without error, and afterwards the type has one key in
\* the index and one element in the eviction list, the one the key names.
C11_ConcurrentMissesCollapse ==
    [][\A g \in Callers, t \in Types :
          RacingStore(g, t) =>
              /\ getFieldsInfoStore(globalCache, t).result = t
              /\ getFieldsInfoStore(globalCache, t).err = NoErr
              /\ fault' = "none"
              /\ t \in DOMAIN globalCache'.cache
              /\ EntriesOf(t)' = {globalCache'.cache[t]}]_vars

(***************************************************************************)
(* A capacity of zero (SpecCache).                                         *)
(***************************************************************************)
\* C12: while the capacity is 0 the cache holds no entry and no lookup is
\* served from one.
C12_ZeroCapacityDisablesCaching ==
    (Running /\ globalCache.maxSize = 0) =>
        /\ DOMAIN globalCache.cache = {}
        /\ globalCache.evictList.len = 0
        /\ \A g \in Callers : gor[g].st # "hit"

(***************************************************************************)
(* Eviction order and order of access (SpecCache).                         *)
(***************************************************************************)
RECURSIVE OrderFrom(_, _)
\* the types of the indexed elements met walking the list from x
OrderFrom(x, n) ==
    IF x = Root \/ x = Nil \/ n = 0 THEN <<>>
    ELSE (IF x \in Indexed THEN <<globalCache.evictList.val[x]>> ELSE <<>>)
             \o OrderFrom(globalCache.evictList.next[x], n - 1)

\* the cached types in eviction order, the last one is evicted first
EvictionOrder == OrderFrom(globalCache.evictList.next[Root], MaxElems)

\* type a sits ahead of type b in the eviction order
Ahead(a, b) ==
    \E i, j \in DOMAIN EvictionOrder :
        i < j /\ EvictionOrder[i] = a /\ EvictionOrder[j] = b

\* no hit is in progress and no promotion is waiting to run
NoPromotionDue == NoReader /\ PendingTotal = 0

\* the types of the n most recently accessed entries
MostRecent(n) == {accessed[i].t : i \in 1..n}

\* C13: a miss that inserts into a cache holding as many entries as its
\* capacity evicts the least recently accessed entry, and only that one.
C13_MissEvictsLeastRecentlyUsed ==
    [][\A g \in Callers :
          (/\ GetFieldsInfoStore(g)
           /\ gor[g].t \notin DOMAIN globalCache.cache
           /\ globalCache.maxSize > 0
           /\ Cardinality(DOMAIN globalCache.cache) = globalCache.maxSize
           /\ NoPromotionDue)
          => DOMAIN globalCache'.cache =
                 (DOMAIN globalCache.cache \ {accessed[Len(accessed)].t}) \cup {gor[g].t}]_vars

\* C14: once every promotion has run, a type whose last access was a hit
\* sits ahead of every cached type that was last accessed before that hit.
C14_PromotionsFollowAccessOrder ==
    Quiescent =>
        \A i, j \in DOMAIN accessed :
            (i < j /\ accessed[i].hit) => Ahead(accessed[i].t, accessed[j].t)

\* C15: SetMaxSize(n) with 0 < n < the number of entries leaves exactly the
\* n most recently accessed entries.
C15_ShrinkKeepsMostRecent ==
    [][\A n \in 1..MaxCap :
          (/\ CallSetMaxSize(n)
           /\ n < Cardinality(DOMAIN globalCache.cache)
           /\ NoPromotionDue)
          => /\ DOMAIN globalCache'.cache = MostRecent(n)
             /\ globalCache'.evictList.len = n]_vars

\* C16: a lookup whose eviction failed returns an error to its caller.
C16_FailedEvictionIsReported ==
    [][\A g \in Callers :
          (GetFieldsInfoStore(g) /\ getFieldsInfoStore(globalCache, gor[g].t).ignored)
          => getFieldsInfoStore(globalCache, gor[g].t).err # NoErr]_vars

(***************************************************************************)
(* SpecConcurrent: MaxCallers goroutines call MarshalByGroupsWithOptions   *)
(* on the same value at once.  A step is one frame of valueToMap: a frame  *)
(* either returns or calls valueToMap on the one field it descends into.   *)
(* The values are Next chains and Next cycles (no map, no slice), so a     *)
(* struct has one field at most to descend into and nothing is left to do  *)
(* in a frame after that call returns.  A map has an identity: the context *)
(* holds a reference to its pointers map, as a Go map value is one.        *)
(***************************************************************************)
IdleCall ==
    [st |-> "idle", val |-> NilV, path |-> <<>>, depth |-> 0, pointers |-> 0,
     err |-> NoErr, fatal |-> FALSE]

\* a mutant of newContext: every context refers to the first map made
newContextShared(maps) ==
    [path |-> <<>>, depth |-> 0, pointers |-> 1,
     maps |-> IF maps = <<>> THEN <<NoPointers>> ELSE maps]

\* newContext(opts): the context, and the maps made so far
newContext(maps) ==
    [path |-> <<>>, depth |-> 0, pointers |-> Len(maps) + 1,
     maps |-> Append(maps, NoPointers)]

\* the fields of struct val on which structToMap calls valueToMap with a
\* value that is not a scalar
DescendFieldsOf(val, fields) ==
    {i \in 1..Len(fields) :
        LET f == fields[i]
            fieldValue == FieldByIndex(val, f.Index)
            isNilPointer == Kind(fieldValue) = "ptr" /\ IsNil(fieldValue)
            isNilOrEmpty == isNilPointer \/ isEmptyValue(fieldValue)
            isZero == isZeroValue(fieldValue)
        IN  /\ shouldIncludeField(f, opts.GroupMode, groups)
            /\ ~(isNilPointer /\ opts.IgnoreNilPointers)
            /\ ~(f.OmitEmpty /\ isNilOrEmpty /\ ~opts.NullIfEmpty)
            /\ ~(f.OmitZero /\ isZero /\ ~opts.NullIfEmpty)
            /\ ~(isNilOrEmpty /\ opts.NullIfEmpty)
            /\ Kind(fieldValue) \notin {"int", "string"}}

\* the same, of the fields that structToMap looks up for the struct
DescendFields(val) ==
    DescendFieldsOf(val, getFieldsInfo(heap[val.a].t, opts.TagKey))

\* one frame of valueToMap(ctx, v, groups, mode) for call c: what the call
\* does next, and its pointers map afterwards
valueToMapFrame(c, ptrs) ==
    LET val == c.val
        kind == Kind(val)
        back(err, m) == [c |-> [c EXCEPT !.st = "return", !.err = err], ptrs |-> m]
        down(nv, np, m) ==
            [c |-> [c EXCEPT !.val = nv, !.path = np, !.depth = c.depth + 1], ptrs |-> m]
    IN  IF kind \in {"string", "int"} THEN back(NoErr, ptrs)
        ELSE IF kind \in {"ptr", "iface"} /\ IsNil(val) THEN
            back(IF opts.IgnoreNilPointers /\ kind = "ptr" THEN SkipField ELSE NoErr, ptrs)
        ELSE IF enterLevelFails(c.depth + 1) THEN
            IF kind \in {"slice", "map"} /\ LenV(val) = 0 THEN back(NoErr, ptrs)
            ELSE back(MaxDepthError(c.path), ptrs)
        ELSE IF c.depth + 1 > MaxStack THEN
            [c |-> [c EXCEPT !.st = "done", !.fatal = TRUE], ptrs |-> ptrs]
        ELSE
            LET chk == IF kind \in {"ptr", "map", "slice"}
                       THEN checkPointer(c.path, ptrs, val)
                       ELSE [err |-> NoErr, ptrs |-> ptrs]
            IN  IF chk.err # NoErr THEN back(chk.err, chk.ptrs)
                ELSE IF kind \in {"ptr", "iface"}
                THEN down(Elem(val), withPath(c.path, ""), chk.ptrs)
                ELSE IF kind = "struct" /\ DescendFields(val) # {}
                THEN LET i == CHOOSE x \in DescendFields(val) :
                                  \A y \in DescendFields(val) : x <= y
                         f == getFieldsInfo(heap[val.a].t, opts.TagKey)[i]
                     IN  down(FieldByIndex(val, f.Index), withPath(c.path, f.Name), chk.ptrs)
                ELSE back(NoErr, chk.ptrs)

\* the error a frame hands up through its callers: structToMap swallows the
\* drop signal of a field, every frame passes any other error on
Propagated(c) ==
    IF c.err.type = "skip_field" /\ c.depth > 0 THEN NoErr ELSE c.err

\* the values of SpecConcurrent
ChainHeap(nx) == MakeHeap(nx, [kind |-> "none", e |-> <<>>])

InitConcurrent ==
    /\ pc = "concurrent"
    /\ field = IdleField
    /\ included = FALSE
    /\ v \in Roots
    /\ IF v \in {NilV, Boxed(PtrV(0))}
       THEN heap = ChainHeap([i \in Nodes |-> 0])
       ELSE \E nx \in NextChoices : heap = ChainHeap(nx)
    /\ opts \in MarshalOptions
    /\ groups \in MarshalGroups
    /\ ret = NoRet
    /\ CacheIdle
    /\ calls = [c \in Callers |-> IdleCall]
    /\ pointerMaps = <<>>
    /\ WarmIdle

\* the variables SpecConcurrent leaves alone
argVars == <<pc, field, groups, opts, included, heap, v, ret, cached, outputs, faulty>>

\* MarshalByGroupsWithOptions up to its call of valueToMap: a nil argument
\* is answered at once, otherwise the context is made
CallEnter(c) ==
    /\ pc = "concurrent"
    /\ calls[c].st = "idle"
    /\ IF v = NilV
       THEN /\ calls' = [calls EXCEPT ![c].st = "done"]
            /\ UNCHANGED pointerMaps
       ELSE LET ctx == newContext(pointerMaps)
            IN  /\ calls' = [calls EXCEPT ![c] =
                                [st |-> "frame", val |-> ValueOf(v), path |-> ctx.path,
                                 depth |-> ctx.depth, pointers |-> ctx.pointers,
                                 err |-> NoErr, fatal |-> FALSE]]
                /\ pointerMaps' = ctx.maps
    /\ UNCHANGED argVars
    /\ UNCHANGED cacheVars

\* one frame of valueToMap runs in call c
CallFrame(c) ==
    /\ pc = "concurrent"
    /\ calls[c].st = "frame"
    /\ LET r == valueToMapFrame(calls[c], pointerMaps[calls[c].pointers])
       IN  /\ calls' = [calls EXCEPT ![c] = r.c]
           /\ pointerMaps' = [pointerMaps EXCEPT ![calls[c].pointers] = r.ptrs]
    /\ UNCHANGED argVars
    /\ UNCHANGED cacheVars

\* the frames of call c return up to the entry point, which wraps an error
CallReturn(c) ==
    /\ pc = "concurrent"
    /\ calls[c].st = "return"
    /\ calls' = [calls EXCEPT ![c].st = "done",
                              ![c].err = IF Propagated(calls[c]) = NoErr THEN NoErr
                                         ELSE wrapEntryError(Propagated(calls[c]))]
    /\ UNCHANGED pointerMaps
    /\ UNCHANGED argVars
    /\ UNCHANGED cacheVars

NextConcurrent ==
    \/ \E c \in Callers : CallEnter(c)
    \/ \E c \in Callers : CallFrame(c)
    \/ \E c \in Callers : CallReturn(c)

SpecConcurrent == InitConcurrent /\ [][NextConcurrent]_vars

\* what the call returns when it runs alone
Alone == MarshalByGroupsWithOptions(v)

\* call c is inside its traversal
Traversing(c) == calls[c].st \in {"frame", "return"}

\* C17: calls running at once hold different pointers maps, and each one
\* returns what it returns when it runs alone; on a chain without a cycle
\* and without a depth limit each one succeeds.
C17_ConcurrentCallsIndependent ==
    pc = "concurrent" =>
        /\ \A c, d \in Callers :
               (c # d /\ calls[c].st # "idle" /\ calls[d].st # "idle" /\ v # NilV)
                   => calls[c].pointers # calls[d].pointers
        /\ \A c \in Callers :
               calls[c].st = "done" =>
                   /\ calls[c].err = Alone.err
                   /\ calls[c].fatal = Alone.fatal
                   /\ (IsChain /\ opts.MaxDepth = 0) => calls[c].err = NoErr

\* two calls are inside their traversals of the same chain of two nodes or
\* more, each has met the first node's pointer, and one of them has met it
\* after the other did
C17_Witness ==
    /\ pc = "concurrent"
    /\ IsChain /\ ChainL >= 2 /\ LinkIncluded /\ v.k = "ptr"
    /\ ~opts.DisableCircularCheck
    /\ \E c, d \in Callers :
           /\ c # d
           /\ Traversing(c) /\ calls[c].depth >= 3
           /\ calls[d].st = "done" /\ calls[d].err = NoErr
           /\ 1 \in DOMAIN pointerMaps[calls[c].pointers]
           /\ 1 \in DOMAIN pointerMaps[calls[d].pointers]

(***************************************************************************)
(* The group filter at its edges (SpecFilter).                             *)
(***************************************************************************)
\* C18: with no requested groups every field is included, whatever its
\* groups and whatever the mode.
C18_EmptyRequestIncludesAll ==
    (pc = "done" /\ groups = <<>>) => included

\* a field without groups, no requested groups, ALL mode: included
C18_Witness ==
    /\ pc = "done"
    /\ groups = <<>>
    /\ field.Groups = <<>>
    /\ opts.GroupMode = GroupModeAnd
    /\ included

\* C19: a field that declares no groups is excluded whenever a group is
\* requested, in either mode.
C19_UntaggedFieldExcluded ==
    (pc = "done" /\ field.Groups = <<>> /\ groups # <<>>) => ~included

\* a field without groups, one requested group, ALL mode: excluded
C19_Witness ==
    /\ pc = "done"
    /\ field.Groups = <<>>
    /\ groups = <<"public">>
    /\ opts.GroupMode = GroupModeAnd
    /\ ~included

\* the field is included under the request gs
IncludedUnder(gs) == shouldIncludeField(field, opts.GroupMode, gs)

\* the requests made of groups of the request gs
WithinRequest(gs) == {sub \in GroupLists : Range(sub) \subseteq Range(gs)}

\* C20 as stated: in ANY mode a field included under a request is included
\* under every enlargement of it; in ALL mode a field included under a
\* request is included under every request made of its groups.
C20_EnlargingIsMonotone ==
    (pc = "done" /\ included) =>
        /\ opts.GroupMode = GroupModeOr =>
               \A more \in GroupLists :
                   IncludedUnder(groups \o more) /\ IncludedUnder(more \o groups)
        /\ opts.GroupMode = GroupModeAnd =>
               \A sub \in WithinRequest(groups) : IncludedUnder(sub)

\* C20, amended: the same, in ANY mode for a request that is not empty.
C20_EnlargingNonEmptyIsMonotone ==
    (pc = "done" /\ included) =>
        /\ (opts.GroupMode = GroupModeOr /\ groups # <<>>) =>
               \A more \in GroupLists :
                   IncludedUnder(groups \o more) /\ IncludedUnder(more \o groups)
        /\ opts.GroupMode = GroupModeAnd =>
               \A sub \in WithinRequest(groups) : IncludedUnder(sub)

\* ANY mode: a field tagged public, included under [public], stays included
\* under [public, admin]
C20_Witness ==
    /\ pc = "done"
    /\ opts.GroupMode = GroupModeOr
    /\ field.Groups = <<"public">>
    /\ groups = <<"public">>
    /\ included
    /\ IncludedUnder(<<"public", "admin">>)

\* ALL mode: a field tagged public and admin, included under [public, admin],
\* is included under [public] and under [admin]
C20_WitnessAll ==
    /\ pc = "done"
    /\ opts.GroupMode = GroupModeAnd
    /\ field.Groups = <<"public", "admin">>
    /\ groups = <<"public", "admin">>
    /\ included
    /\ IncludedUnder(<<"public">>) /\ IncludedUnder(<<"admin">>)

(***************************************************************************)
(* Fields of a struct through the options (SpecFields).                    *)
(***************************************************************************)
\* the struct handed to the entry point, and the value of its field i
OmitStruct == heap[1]
OmitField(i) == heap[1].e[i]

\* a field tagged tag passes the filter of the call
Passes(tag) == shouldIncludeField([Groups |-> tag], opts.GroupMode, groups)

\* the mapping of an Address under the groups and mode of the call
AddressOut ==
    LET street == IF Passes(<<"admin", "public">>)
                  THEN MapSet(EmptyMap, "street", IRStr("street")) ELSE EmptyMap
    IN  IF Passes(<<"admin">>) THEN MapSet(street, "zip", IRStr("zip")) ELSE street

\* the output of a successful call is a mapping; its keys and its values
OutKeys == DOMAIN ret.data.m
Out(key) == ret.data.m[key]
Emitted == pc = "done" /\ Succeeded /\ ret.data.k = "map"

\* C21: the requested groups and the mode apply at every nesting level.  An
\* Address reached through a struct field (home), through a pointer (ptr),
\* as a slice element or as a map value is emitted with exactly the fields
\* that pass the filter of the call (a nil element is emitted as null), and
\* the struct's own and embedded fields are emitted only when they pass it.
C21_FilterAtEveryLevel ==
    Emitted =>
        /\ "home" \in OutKeys => Out("home") = IRMap(AddressOut)
        /\ ("ptr" \in OutKeys /\ Out("ptr") # Null) => Out("ptr") = IRMap(AddressOut)
        /\ ("slice" \in OutKeys /\ Out("slice") # Null /\ heap[7].e # <<SliceV(9)>>) =>
               \A i \in 1..Len(Out("slice").e) :
                   Out("slice").e[i] \in {Null, IRMap(AddressOut)}
        /\ ("map" \in OutKeys /\ Out("map") # Null /\ heap[8].e # <<MapV(10)>>) =>
               \A key \in DOMAIN Out("map").m : Out("map").m[key] = IRMap(AddressOut)
        /\ "int" \in OutKeys => Passes(<<"public", "internal">>)
        /\ "home" \in OutKeys => Passes(<<"public", "admin">>)
        /\ "street" \in OutKeys => Passes(<<"admin", "public">>)
        /\ "zip" \in OutKeys => Passes(<<"admin">>)

\* under [public] the Address behind each of the four is emitted with its
\* street and without its zip
C21_Witness ==
    /\ Emitted
    /\ groups = <<"public">>
    /\ {"home", "ptr", "slice", "map"} \subseteq OutKeys
    /\ AddressOut = MapSet(EmptyMap, "street", IRStr("street"))
    /\ Out("home") = IRMap(AddressOut)
    /\ Out("ptr") = IRMap(AddressOut)
    /\ Out("slice") = IRSeq(<<IRMap(AddressOut)>>)
    /\ Out("map") = IRMap(MapSet(EmptyMap, "k", IRMap(AddressOut)))

\* under [public, admin] in ALL mode the zip, tagged admin only, is removed
\* at the nested levels too
C21_WitnessAll ==
    /\ Emitted
    /\ groups = <<"public", "admin">>
    /\ opts.GroupMode = GroupModeAnd
    /\ "home" \in OutKeys
    /\ Out("home") = IRMap(MapSet(EmptyMap, "street", IRStr("street")))

\* the resolved fields of the struct handed to the entry point; the first
\* four are its Int, Slice, Map and Ptr
OmitFields == getFieldsInfo(OmitStruct.t, opts.TagKey)
Taken(i) == shouldIncludeField(OmitFields[i], opts.GroupMode, groups)
Suppressed(i) == OmitFields[i].JSONName \notin OutKeys
\* the omission the json options of field i ask for
OmitAsked(i) ==
    \/ OmitFields[i].OmitEmpty /\ isEmptyValue(OmitField(i))
    \/ OmitFields[i].OmitZero /\ isZeroValue(OmitField(i))

\* C22: with null-if-empty off an included field is suppressed exactly when
\* it is tagged omitempty and empty, or tagged omitzero and zero.
C22_SuppressedExactlyWhenOmitted ==
    (Emitted /\ ~opts.NullIfEmpty) =>
        \A i \in 1..4 : Taken(i) => (Suppressed(i) <=> OmitAsked(i))

\* what remains of it: it holds of the fields that hold no nil pointer,
\* neither themselves nor as an element
C22_HoldsWithoutNilPointers ==
    (Emitted /\ ~opts.NullIfEmpty) =>
        \A i \in 1..3 :
            (Taken(i) /\ ~(i = 2 /\ OmitField(2).a # 0 /\ heap[7].e # <<>> /\ heap[7].e[1].a = 0))
                => (Suppressed(i) <=> OmitAsked(i))

\* the Ptr field of the struct is nil and passes the filter
NilPtrField == Taken(4) /\ OmitField(4).a = 0

\* C23: a nil pointer field is absent from the output when nil pointers are
\* suppressed; with the suppression off and null-if-empty on it is emitted
\* as null.
C23_NilPointerField ==
    (Emitted /\ NilPtrField) =>
        /\ opts.IgnoreNilPointers => Suppressed(4)
        /\ (~opts.IgnoreNilPointers /\ opts.NullIfEmpty) =>
               ("ptr" \in OutKeys /\ Out("ptr") = Null)

\* the default options: the nil Ptr is absent, next to the Int that is there
C23_Witness ==
    /\ Emitted /\ NilPtrField
    /\ opts = DefaultOptions
    /\ Suppressed(4) /\ ~Suppressed(1)

\* WithNullIfEmpty(true): the nil Ptr is emitted as null
C23_WitnessNull ==
    /\ Emitted /\ NilPtrField
    /\ opts.NullIfEmpty /\ ~opts.IgnoreNilPointers
    /\ "ptr" \in OutKeys /\ Out("ptr") = Null

\* C24: for every Options built from DefaultOptions by the builders,
\* null-if-empty on implies nil-pointer suppression off, so that a nil
\* pointer field is emitted as null, never dropped, whenever null-if-empty
\* is on.
C24_NullIfEmptyDisablesSuppression ==
    /\ opts.NullIfEmpty => ~opts.IgnoreNilPointers
    /\ (Emitted /\ NilPtrField /\ opts.NullIfEmpty) =>
           ("ptr" \in OutKeys /\ Out("ptr") = Null)

\* the second half alone: the nil pointer field of a call with null-if-empty
\* on is emitted as null
C24_NilPointerIsNull ==
    (Emitted /\ NilPtrField /\ opts.NullIfEmpty) =>
        ("ptr" \in OutKeys /\ Out("ptr") = Null)

TwoCycle ==
    /\ v = Boxed(PtrV(1))
    /\ heap[1].e[2] = PtrV(2)
    /\ heap[2].e[2] = PtrV(1)

\* C26: the path of an error is made of field names, index markers and map
\* keys, with no segment for a pointer or interface dereference (a path is
\* the sequence of its segments, written joined by dots); for two nodes
\* pointing at each other the circular-reference error carries Next.Next.
C26_PathHasNoDereferenceSegment ==
    (pc = "done" /\ ~ret.panic /\ ~ret.fatal /\ ret.err # NoErr) =>
        /\ \A i \in 1..Len(ret.err.path) : ret.err.path[i] # ""
        /\ (TwoCycle /\ Failed("CircularReference")) => ret.err.path = <<"Next", "Next">>

\* the path the call on the two nodes reports: Next..Next
C26_TwoCyclePath ==
    (pc = "done" /\ TwoCycle /\ Failed("CircularReference")) =>
        ret.err.path = <<"Next", "", "Next">>

C26_TwoCycleReached ==
    pc = "done" /\ TwoCycle /\ Failed("CircularReference")

\* the Slice field of the struct of SpecFields passes the filter and holds a
\* nil pointer followed by a pointer to an Address
NilFirstSlice ==
    /\ Taken(2)
    /\ OmitField(2) = SliceV(7)
    /\ heap[7].e = <<PtrV(0), PtrV(3)>>

\* C28: in a non-empty slice a nil pointer element under nil-pointer
\* suppression is left out and every other element is appended in order; the
\* slice itself is neither dropped nor turned into an error.
C28_NilElementOmitted ==
    (pc = "done" /\ NilFirstSlice /\ opts.IgnoreNilPointers /\ opts.MaxDepth = DefaultMaxDepth) =>
        /\ Emitted
        /\ "slice" \in OutKeys
        /\ Out("slice") = IRSeq(<<IRMap(AddressOut)>>)

\* what the call returns instead: a mapping without the slice
C28_SliceDropped ==
    (pc = "done" /\ NilFirstSlice /\ opts.IgnoreNilPointers /\ opts.MaxDepth = DefaultMaxDepth) =>
        (Emitted /\ "slice" \notin OutKeys)

\* with the suppression off the elements are all there, the nil one as null
\* when null-if-empty is on and left out otherwise
C28_SuppressionOff ==
    (pc = "done" /\ NilFirstSlice /\ ~opts.IgnoreNilPointers /\ opts.MaxDepth = DefaultMaxDepth) =>
        /\ Emitted
        /\ "slice" \in OutKeys
        /\ Out("slice") = IF opts.NullIfEmpty THEN IRSeq(<<Null, IRMap(AddressOut)>>)
                          ELSE IRSeq(<<IRMap(AddressOut)>>)

(***************************************************************************)
(* The depth limit at an empty slice or map (SpecFields).                  *)
(***************************************************************************)
\* ctx.depth in structToMap of the struct handed to the entry point: the
\* pointer to it and the struct itself are each a level
StructDepth == IF v.k = "ptr" THEN 2 ELSE 1

\* entering a field of the struct would exceed the limit, and no field that
\* passes the filter holds anything but a scalar, a nil pointer or an empty
\* slice or map
FieldsAtLimit ==
    /\ pc = "done"
    /\ opts.MaxDepth = StructDepth
    /\ groups = <<"internal">>
    /\ OmitField(4).a = 0
    /\ LenV(OmitField(2)) = 0 /\ LenV(OmitField(3)) = 0

\* the Slice and the Map are entered within the limit and hold nothing but
\* one empty slice and one empty map, which to enter would exceed it
ElementsAtLimit ==
    /\ pc = "done"
    /\ opts.MaxDepth = StructDepth + 1
    /\ groups = <<"internal">>
    /\ OmitField(4).a = 0
    /\ heap[7].e = <<SliceV(9)>> /\ OmitField(2) = SliceV(7)
    /\ heap[8].e = <<MapV(10)>> /\ OmitField(3) = MapV(8)

\* what an empty slice and an empty map become where they cannot be entered
EmptySliceOut == IF opts.NullIfEmpty THEN Null ELSE IRSeq(<<>>)
EmptyMapOut == IF opts.NullIfEmpty THEN Null ELSE IRMap(EmptyMap)

\* C30: where entering an empty slice or map would exceed the depth limit,
\* the call returns no depth-exceeded error; the container becomes null when
\* null-if-empty is on and the empty container otherwise, and the depth
\* counter is as it was before the attempt.
C30_EmptyContainerAtLimit ==
    /\ FieldsAtLimit =>
          /\ Emitted
          /\ \A i \in 2..3 :
                 /\ ~Suppressed(i) =>
                        Out(OmitFields[i].JSONName) = IF i = 2 THEN EmptySliceOut ELSE EmptyMapOut
                 /\ Suppressed(i) => (~opts.NullIfEmpty /\ OmitFields[i].OmitEmpty)
                 /\ valueToMapDepth(StructDepth, OmitField(i)) = StructDepth
    /\ ElementsAtLimit =>
          /\ Emitted
          /\ Out("slice") = IRSeq(<<EmptySliceOut>>)
          /\ Out("map") = IRMap(MapSet(EmptyMap, "k", EmptyMapOut))
          /\ valueToMapDepth(StructDepth + 1, SliceV(9)) = StructDepth + 1
          /\ valueToMapDepth(StructDepth + 1, MapV(10)) = StructDepth + 1

\* null-if-empty off: the empty slice and the empty map of the fields are
\* emitted as [] and {}
C30_Witness ==
    /\ FieldsAtLimit
    /\ ~opts.NullIfEmpty
    /\ Emitted
    /\ enterLevelFails(StructDepth + 1)
    /\ {"slice", "map"} \subseteq OutKeys
    /\ Out("slice") = IRSeq(<<>>) /\ Out("map") = IRMap(EmptyMap)

\* null-if-empty on: the empty slice held by the Slice and the empty map held
\* by the Map are emitted as null
C30_WitnessNull ==
    /\ ElementsAtLimit
    /\ opts.NullIfEmpty
    /\ Emitted
    /\ enterLevelFails(StructDepth + 2)
    /\ Out("slice") = IRSeq(<<Null>>)
    /\ Out("map") = IRMap(MapSet(EmptyMap, "k", Null))

(***************************************************************************)
(* The field cache across marshal calls (SpecWarm).                        *)
(***************************************************************************)
\* C29: whatever the cache holds and whatever was done before, the lookup of
\* a type under a tag key returns the descriptors the resolver computes for
\* that type and that tag key, also when the type was cached under another
\* tag key before.
C29_LookupMatchesResolver ==
    \A t \in {"Node"}, key \in TagKeys : getFieldsInfo(t, key) = parseFields(t, key)

\* what holds instead: the lookup returns the descriptors of the tag key the
\* entry was stored under
C29_LookupReturnsStoredEntry ==
    \A t \in DOMAIN cached, key \in TagKeys : getFieldsInfo(t, key) = parseFields(t, cached[t])

\* C27: two calls on the same value with the same options and groups return
\* the same output, whether the cache was cold or warm at either.
C27_SameCallSameOutput ==
    \A i, j \in 1..Len(outputs) :
        outputs[i].opts = outputs[j].opts => outputs[i].ret = outputs[j].ret

\* the cache before call i held no entry stored under another tag key than
\* the call's
OwnKeyOnly(i) ==
    \A t \in DOMAIN outputs[i].cache : outputs[i].cache[t] = outputs[i].opts.TagKey

\* what remains of it: the two calls return the same output, cold or warm,
\* when no entry of either cache was stored under another tag key
C27_SameOutputUnderOwnKey ==
    \A i, j \in 1..Len(outputs) :
        (outputs[i].opts = outputs[j].opts /\ OwnKeyOnly(i) /\ OwnKeyOnly(j))
            => outputs[i].ret = outputs[j].ret

\* a cold call and a warm call with the same options were made
C27_ColdAndWarm ==
    \E i, j \in 1..Len(outputs) :
        /\ outputs[i].opts = outputs[j].opts
        /\ outputs[i].cache = <<>> /\ outputs[j].cache # <<>>
        /\ OwnKeyOnly(j)
        /\ outputs[i].ret.data # Null

(***************************************************************************)
(* Empty values under null-if-empty (SpecFields).                          *)
(***************************************************************************)
\* the Slice field passes the filter, every level can be entered, and the
\* field holds no element (nil or of length zero) or one slice of length zero
EmptySliceField ==
    /\ Emitted
    /\ opts.MaxDepth = DefaultMaxDepth
    /\ Taken(2)
    /\ LenV(OmitField(2)) = 0
EmptySliceElement ==
    /\ Emitted
    /\ opts.MaxDepth = DefaultMaxDepth
    /\ Taken(2)
    /\ OmitField(2) = SliceV(7)
    /\ heap[7].e = <<SliceV(9)>>

\* C31: an empty slice yields null when null-if-empty is on and the empty
\* sequence otherwise, as a struct field (where omitempty has not taken the
\* field out) and as a slice element alike, nil or of length zero.
C31_EmptySequenceNullOrEmpty ==
    /\ EmptySliceField =>
          (~Suppressed(2) => Out("slice") = EmptySliceOut)
    /\ EmptySliceElement =>
          ("slice" \in OutKeys /\ Out("slice") = IRSeq(<<EmptySliceOut>>))

\* what holds of it: the struct field, and the element with null-if-empty off
C31_FieldNullOrEmpty ==
    /\ EmptySliceField =>
          (~Suppressed(2) => Out("slice") = EmptySliceOut)
    /\ (EmptySliceElement /\ ~opts.NullIfEmpty) =>
          ("slice" \in OutKeys /\ Out("slice") = IRSeq(<<IRSeq(<<>>)>>))

\* with null-if-empty on, the slice of length zero held as an element is
\* emitted as the empty sequence
C31_ElementStaysEmpty ==
    /\ EmptySliceElement
    /\ opts.NullIfEmpty
    /\ Out("slice") = IRSeq(<<IRSeq(<<>>)>>)

\* field i of the struct passes the filter and holds an empty value
EmptyField(i) == Taken(i) /\ isEmptyValue(OmitField(i))

\* C32: with null-if-empty on, every field that passes the filter and holds
\* an empty value (zero number, slice or map of length zero, nil pointer) is
\* a key of the output with the value null, whatever omitempty or omitzero
\* its json tag carries.
C32_EmptyFieldIsNull ==
    (Emitted /\ opts.NullIfEmpty) =>
        \A i \in 1..4 :
            EmptyField(i) =>
                /\ OmitFields[i].JSONName \in OutKeys
                /\ Out(OmitFields[i].JSONName) = Null

\* what holds of it: the fields other than the nil pointer, and the nil
\* pointer when nil-pointer suppression is off
C32_NullUnlessSuppressed ==
    (Emitted /\ opts.NullIfEmpty) =>
        \A i \in 1..4 :
            (EmptyField(i) /\ ~(i = 4 /\ opts.IgnoreNilPointers)) =>
                /\ OmitFields[i].JSONName \in OutKeys
                /\ Out(OmitFields[i].JSONName) = Null

\* a call with null-if-empty on whose nil pointer field is left out, while
\* its zero Int tagged omitempty and omitzero is emitted as null
C32_NilPointerLeftOut ==
    /\ Emitted
    /\ opts.NullIfEmpty
    /\ OmitStruct.t = "OmitBoth"
    /\ EmptyField(1) /\ EmptyField(4)
    /\ Out("int") = Null
    /\ "ptr" \notin OutKeys

(***************************************************************************)
(* The cache's counters (SpecCache).                                       *)
(***************************************************************************)
\* C33: once the lookups in flight have completed, the hit counter is the
\* number of lookups answered from the cache since the last Clear and the
\* miss counter the number answered by parseFields: no increment is lost and
\* no lookup goes uncounted.
C33_CountersMatchLookups ==
    Quiescent =>
        /\ globalCache.stats.hits = lookups.fromCache
        /\ globalCache.stats.misses = lookups.parsed

\* what holds of it: the miss counter is exact, and the hit counter never
\* exceeds the lookups answered from the cache
C33_MissesExactHitsAtMost ==
    Running =>
        /\ globalCache.stats.misses = lookups.parsed
        /\ globalCache.stats.hits <= lookups.fromCache

\* a store that finds the type in the index at its second look returns the
\* cached entry and leaves both counters as they were
C33_SecondLookUncounted ==
    [][\A g \in Callers :
          (GetFieldsInfoStore(g) /\ gor[g].t \in DOMAIN globalCache.cache)
              => globalCache'.stats = globalCache.stats]_vars

\* two lookups were answered from the cache and the hit counter is 1
C33_HitLost ==
    /\ Quiescent
    /\ lookups.fromCache = 2
    /\ globalCache.stats.hits = 1

\* two callers hold the read lock at once and have read the same value of
\* c.stats.hits: each will write that value plus one
C33_RacingIncrements ==
    \E g, o \in Callers :
        /\ g # o
        /\ gor[g].st = "hit" /\ gor[o].st = "hit"
        /\ gor[g].h = gor[o].h

(***************************************************************************)
(* Fields the group filter excludes (SpecMarshal).                         *)
(***************************************************************************)
\* the call is made on node 1 with the one group that selects ID alone, and
\* the limit lets the struct itself be entered
ScalarsOnly ==
    /\ pc = "done"
    /\ RootIsNode
    /\ groups = <<"base">>
    /\ ~enterLevelFails(IF v.k = "ptr" THEN 2 ELSE 1)

\* what lies behind the excluded fields of node 1: a cycle of Next pointers,
\* a Next chain with more levels than the limit, a map holding an array of
\* length 0 (on which the traversal panics under null-if-empty), a slice
\* holding a nil pointer
CycleBehind == NextChainLen(v.a, MaxNodes) = -1
DepthBehind == NextChainLen(v.a, MaxNodes) > 1 /\ enterLevelFails(3)
PanicBehind ==
    heap[1].e[4] = MapV(MapAddr) /\ heap[MapAddr].e = <<Boxed(ArrayV(0))>> /\ opts.NullIfEmpty
NilBehind ==
    heap[1].e[3] = SliceV(SliceAddr) /\ heap[SliceAddr].e # <<>>
        /\ heap[SliceAddr].e[1] = PtrV(0) /\ opts.IgnoreNilPointers

\* C34: a field the group filter excludes is neither read nor traversed.  A
\* call that selects the scalar field of a node alone succeeds with that
\* field, whatever its Next, Items and Data fields lead to.
C34_ExcludedFieldsUntouched ==
    ScalarsOnly =>
        /\ Succeeded
        /\ ret.data = IRMap(MapSet(EmptyMap, "id", IRInt(1)))

\* the call succeeds on a cycle of Next pointers with cycle checking on
C34_Witness ==
    /\ ScalarsOnly
    /\ CycleBehind
    /\ ~opts.DisableCircularCheck
    /\ Succeeded
    /\ ret.data = IRMap(MapSet(EmptyMap, "id", IRInt(1)))

\* it succeeds on a chain deeper than the limit
C34_WitnessDepth == ScalarsOnly /\ DepthBehind /\ Succeeded

\* it succeeds on a map whose traversal would panic and on a slice whose
\* traversal would end in the drop signal
C34_WitnessPanic == ScalarsOnly /\ PanicBehind /\ Succeeded
C34_WitnessNil == ScalarsOnly /\ NilBehind /\ Succeeded

(***************************************************************************)
(* A fault in the resolver (SpecResolve).                                  *)
(***************************************************************************)
\* call i was made on a struct whose type the cache had no entry for and
\* whose inspection panics, and its traversal got to the struct
FaultyLookup(i) ==
    /\ i \in DOMAIN outputs
    /\ heap[1].t \in faulty
    /\ heap[1].t \notin DOMAIN outputs[i].cache
    /\ ~(v.k = "ptr" /\ outputs[i].opts.MaxDepth = 1)

C35_FaultGivesEmptyMapping ==
    \A i \in DOMAIN outputs :
        FaultyLookup(i) =>
            /\ outputs[i].ret.err = NoErr
            /\ outputs[i].ret.data = IRMap(EmptyMap)

\* a call made on a faulty type, and the entry it left in the cache
C35_FaultyEntryCached ==
    /\ FaultyLookup(1)
    /\ outputs[1].ret.err = NoErr
    /\ heap[1].t \in DOMAIN cached

\* the types that are not faulty resolve as before
C35_SoundTypesResolve ==
    \A t \in DOMAIN StructTypes \ faulty, key \in TagKeys :
        /\ parseFieldsReturn(t, key).err = NoErr
        /\ Len(parseFields(t, key)) > 0

(***************************************************************************)
(* Pointers reached along two paths (SpecMarshal).                         *)
(***************************************************************************)
\* the places of the value that hold a pointer to node j: the Next field of
\* a node the traversal reaches, an element of node 1's Items, a value of
\* node 1's Data
PlacesOf(j) ==
    {<<"Next", i>> : i \in {x \in Reached : heap[x].e[2].a = j}}
        \cup {<<"Items", k>> : k \in {x \in 1..Len(heap[SliceAddr].e) :
                 heap[1].e[3].a # 0 /\ heap[SliceAddr].e[x].a = j}}
        \cup {<<"Data", k>> : k \in {x \in 1..Len(heap[MapAddr].e) :
                 heap[1].e[4].a # 0 /\ heap[MapAddr].e[x].k = "ptr" /\ heap[MapAddr].e[x].a = j}}

\* the call is made on node 1 with every field included, and no cycle of
\* the reference graph is reachable
AcyclicCase ==
    /\ pc = "done"
    /\ RootIsNode
    /\ groups = <<"all">>
    /\ ~CycleReachable

\* some node is pointed to from two places
SharedPointer == \E j \in Nodes : Cardinality(PlacesOf(j)) >= 2

\* C36: a call on a value whose reference graph is acyclic never returns a
\* circular-reference error, also when one pointer is reachable from the
\* root along two paths.
C36_AcyclicNeverCircular ==
    AcyclicCase => ~Failed("CircularReference")

\* what holds of it: the acyclic values in which no pointer is held twice
C36_UnsharedNeverCircular ==
    (AcyclicCase /\ ~SharedPointer) => ~Failed("CircularReference")

\* node 1 holds the pointer to node 2 in its Next and in its Items, node 2
\* ends the chain, and the call returns a circular-reference error
C36_SharedPointerReported ==
    /\ AcyclicCase
    /\ PlacesOf(2) = {<<"Next", 1>>, <<"Items", 1>>}
    /\ heap[2].e[2].a = 0
    /\ Failed("CircularReference")

(***************************************************************************)
(* Nulls in the tree (SpecFields).                                         *)
(***************************************************************************)
RECURSIVE NullFree(_)
\* no mapping below x has a null value and no sequence a null element
NullFree(x) ==
    CASE x.k = "seq" -> \A i \in 1..Len(x.e) : x.e[i] # Null /\ NullFree(x.e[i])
      [] x.k = "map" -> \A key \in DOMAIN x.m : x.m[key] # Null /\ NullFree(x.m[key])
      [] OTHER -> TRUE

\* C37: with null-if-empty off the tree a call returns holds no null below
\* its root: no key of a mapping made from a struct or from a map has the
\* value null, and no sequence has a null element.
C37_NoNullBelowRoot ==
    (pc = "done" /\ Succeeded /\ ~opts.NullIfEmpty) => NullFree(ret.data)

\* nil-pointer suppression off too: the nil Ptr field and the nil first
\* element of the Slice, which the traversal answers with nil, are left out
C37_Witness ==
    /\ Emitted
    /\ ~opts.NullIfEmpty /\ ~opts.IgnoreNilPointers
    /\ OmitStruct.t = "OmitPlain"
    /\ NilPtrField /\ "ptr" \notin OutKeys
    /\ NilFirstSlice /\ Out("slice") = IRSeq(<<IRMap(AddressOut)>>)
    /\ NullFree(ret.data)

\* with null-if-empty on the same value is emitted with its nulls
C37_WitnessNullIfEmpty ==
    /\ Emitted
    /\ opts.NullIfEmpty /\ ~opts.IgnoreNilPointers
    /\ NilPtrField /\ Out("ptr") = Null
    /\ NilFirstSlice /\ Out("slice") = IRSeq(<<Null, IRMap(AddressOut)>>)
    /\ ~NullFree(ret.data)

\* the same of the node graphs of SpecMarshal, whose Data map may hold a nil
\* pointer and whose Items a nil pointer before a node
C37_NoNullInGraphs ==
    (pc = "done" /\ Succeeded /\ ~opts.NullIfEmpty /\ RootIsNode) => NullFree(ret.data)

(***************************************************************************)
(* Groups of an embedding member (SpecEmbedded).                           *)
(***************************************************************************)
\* the fields hoisted into a ComplexUser by their output keys: the groups
\* each one declares itself, and its value
OwnGroups ==
    [id |-> <<"public", "admin">>, email |-> <<"admin", "internal">>,
     password |-> <<"internal">>, created_at |-> <<"admin">>,
     age |-> <<"public", "admin">>, bio |-> <<"public">>]
OwnValue ==
    [id |-> IRInt(heap[2].e[1].n), email |-> IRStr("email"),
     password |-> IRStr("password"), created_at |-> IRStr("created_at"),
     age |-> IRInt(1), bio |-> IRStr("bio")]

\* the groups tag of the Profile member of the struct handed over
MemberGroups == parseGroupsTag(TagGet(StructTypes[heap[1].t][2], opts.TagKey))

\* C38: a field hoisted from an embedded struct is emitted exactly when its
\* own groups pass the filter of the call, with its own value; the groups
\* declared on the embedding member (none on User and BaseInfo, public,admin
\* or internal on Profile) neither exclude nor include it.
C38_HoistedFieldByOwnGroups ==
    Emitted =>
        /\ OutKeys = {key \in DOMAIN OwnGroups : Passes(OwnGroups[key])}
        /\ \A key \in OutKeys : Out(key) = OwnValue[key]

\* the member's groups are not requested and do not exclude: under [public]
\* the Profile tagged internal gives its age and bio, and the untagged User
\* its id
C38_Witness ==
    /\ Emitted
    /\ groups = <<"public">>
    /\ MemberGroups = <<"internal">>
    /\ ~Passes(MemberGroups)
    /\ OutKeys = {"id", "age", "bio"}

\* the member's groups are requested and do not include: under [internal]
\* the Profile tagged internal gives none of its fields
C38_WitnessRequested ==
    /\ Emitted
    /\ groups = <<"internal">>
    /\ MemberGroups = <<"internal">>
    /\ Passes(MemberGroups)
    /\ OutKeys = {"email", "password"}

\* the marshal tests' call: ComplexUser under [public]
C38_WitnessComplexUser ==
    /\ Emitted
    /\ groups = <<"public">>
    /\ heap[1].t = "ComplexUser"
    /\ OutKeys = {"id", "age", "bio"}

====
